---------------------------- MODULE Spec2Model ----------------------------
(***************************************************************************)
(* TwinxPos: the sale transaction (sales_controller.py), the stock         *)
(* operations of the product controller (product_controller.py) and the    *)
(* part of the SQLite schema (database.py) those statements run against.   *)
(*                                                                         *)
(* Conventions                                                             *)
(*   - an id of 0 stands for Python None / SQL NULL;                       *)
(*   - money is an integer number of micro-units (10^-6 of the currency    *)
(*     unit), prices and fixed discounts are given in cents; with integer  *)
(*     quantities and integer percentages every Decimal product of         *)
(*     _calculate_totals is exact at that resolution.  float() of such a   *)
(*     value is off by less than 10^-12 and is kept at model resolution;   *)
(*   - the database is the committed state db plus, for the one connection *)
(*     that holds SQLite's write lock, its uncommitted view;               *)
(*   - a SQL statement that names a column the schema does not declare, or *)
(*     that breaks a NOT NULL / UNIQUE / CHECK / FOREIGN KEY constraint,   *)
(*     raises, exactly as sqlite3 does.                                    *)
(***************************************************************************)
EXTENDS Integers, Sequences, FiniteSets, TLC

VARIABLES
    db,        \* committed database state (record of tables)
    view,      \* view[p]: uncommitted state of terminal p's connection
    lock,      \* terminal holding SQLite's write lock, 0 when free
    pc,        \* pc[p]: position of terminal p inside process_sale
    loc,       \* loc[p]: arguments, locals and result of terminal p's call
    calls,     \* controller calls begun so far
    init_qty,  \* history: stock quantities at Init (never changes)
    calc,      \* input and output of a stand-alone _calculate_totals call
    refund,    \* refund[p]: request and result of terminal p's process_refund
    restock,   \* input and output of a stand-alone stock-status classification
    employee,  \* the employees row of username 'admin', as far as login uses it
    login,     \* login[p]: position, arguments, locals and result of terminal p's login
    attendance, \* the attendance table
    today,     \* date.today(), as a day number
    hr,        \* the last HRController call: operation, arguments and result
    config     \* a ConfigManager with the settings table: caches, last call and history

vars == <<db, view, lock, pc, loc, calls, init_qty, calc, refund, restock, employee, login, attendance, today, hr, config>>

-----------------------------------------------------------------------------
(* Bounds                                                                  *)

MaxCalls == 2
MaxCalcQty == 2

Procs == {1, 2}

-----------------------------------------------------------------------------
(* Schema facts (database.py)                                              *)

\* columns of products that the modelled statements name
ProductsColumns ==
    {"id", "name", "sku", "barcode", "is_active", "manage_stock",
     "stock_quantity", "stock_status", "allow_backorders",
     "low_stock_threshold", "cost_price", "updated_at", "updated_by"}

\* columns of product_variations that the modelled statements name
VariationsColumns ==
    {"id", "product_id", "name", "sku", "barcode", "cost_price",
     "stock_quantity", "stock_status", "manage_stock",
     "low_stock_threshold", "is_active", "updated_at"}

\* CHECK(stock_status IN (...)) of products
ProductStockStatuses == {"instock", "outofstock", "onbackorder"}

\* NOT NULL columns of stock_movements that have no DEFAULT
StockMovementsRequired == {"product_id", "movement_type", "warehouse_id", "user_id"}

\* columns of audit_logs that the modelled statements name
AuditLogsColumns ==
    {"user_id", "action_type", "module", "entity_type", "entity_id",
     "change_summary", "status", "action_timestamp"}

\* CHECK(action_type IN (...)) of audit_logs
AuditActionTypes ==
    {"create", "read", "update", "delete", "login", "logout", "export",
     "import", "print", "approve", "reject"}

\* CHECK(status IN (...)) of audit_logs
AuditStatuses == {"success", "failure", "warning", "partial"}

\* general_ledger without the UNIQUE on entry_number
LedgerEntryNumberNotUnique == FALSE

\* general_ledger.entry_number is declared UNIQUE NOT NULL
LedgerEntryNumberUnique == TRUE

\* sales.invoice_no is declared UNIQUE NOT NULL
InvoiceNoUnique == TRUE

\* hard-coded fallback account codes of _get_account_code
DefaultAccounts ==
    [cash_receivables |-> 1010, sales_revenue |-> 4010,
     cost_of_goods_sold |-> 5010, inventory_asset |-> 1210]

SuspenseAccount == 9999

\* the setting_key _get_account_code looks up: 'account_' + account_type
AccountSettingKey ==
    [cash_receivables |-> "account_cash_receivables",
     sales_revenue |-> "account_sales_revenue",
     cost_of_goods_sold |-> "account_cost_of_goods_sold",
     inventory_asset |-> "account_inventory_asset"]

-----------------------------------------------------------------------------
(* Money                                                                   *)

\* micro-units in one cent
MicroPerCent == 10000

Abs(x) == IF x < 0 THEN -x ELSE x

\* Decimal.quantize(Decimal('0.01')) under the default context:
\* ROUND_HALF_EVEN to a whole number of cents, sign kept
Quantize(x) ==
    LET a == Abs(x)
        q == a \div MicroPerCent
        r == a % MicroPerCent
        h == MicroPerCent \div 2
        n == IF r > h THEN q + 1
             ELSE IF r < h THEN q
             ELSE IF q % 2 = 0 THEN q ELSE q + 1
    IN  IF x < 0 THEN -(n * MicroPerCent) ELSE n * MicroPerCent

RECURSIVE SumField(_, _)
\* sum of field f over a sequence of records
SumField(rows, f) ==
    IF rows = << >> THEN 0 ELSE Head(rows)[f] + SumField(Tail(rows), f)

-----------------------------------------------------------------------------
(* SalesController._calculate_totals                                       *)

\* a cart line; gdp is the line's 'global_discount_percent', -1 when the
\* key is absent
Line(pid, vid, qty, price, dpct, damt, tpct, gdp) ==
    [product_id |-> pid, variation_id |-> vid, quantity |-> qty,
     unit_price |-> price, discount_percent |-> dpct,
     discount_amount |-> damt, tax_percent |-> tpct, gdp |-> gdp]

\* the mutant applies tax to the line subtotal before the discount
CalcItemTaxBeforeDiscount(item) ==
    LET item_subtotal == item.quantity * item.unit_price * MicroPerCent
        item_discount_amount ==
            IF item.discount_percent > 0
            THEN (item_subtotal * item.discount_percent) \div 100
            ELSE item.discount_amount * MicroPerCent
        item_tax == (item_subtotal * item.tax_percent) \div 100
    IN  [product_id |-> item.product_id,
         product_variation_id |-> item.variation_id,
         quantity |-> item.quantity,
         unit_price |-> item.unit_price * MicroPerCent,
         subtotal |-> item_subtotal,
         discount_amount |-> item_discount_amount,
         discount_percent |-> item.discount_percent,
         tax_amount |-> item_tax,
         tax_percent |-> item.tax_percent,
         total |-> (item_subtotal - item_discount_amount) + item_tax]

\* the mutant stores a line total that leaves the line's tax out
CalcItemTotalWithoutTax(item) ==
    LET item_subtotal == item.quantity * item.unit_price * MicroPerCent
        item_discount_amount ==
            IF item.discount_percent > 0
            THEN (item_subtotal * item.discount_percent) \div 100
            ELSE item.discount_amount * MicroPerCent
        item_total_after_discount == item_subtotal - item_discount_amount
        item_tax == (item_total_after_discount * item.tax_percent) \div 100
    IN  [product_id |-> item.product_id,
         product_variation_id |-> item.variation_id,
         quantity |-> item.quantity,
         unit_price |-> item.unit_price * MicroPerCent,
         subtotal |-> item_subtotal,
         discount_amount |-> item_discount_amount,
         discount_percent |-> item.discount_percent,
         tax_amount |-> item_tax,
         tax_percent |-> item.tax_percent,
         total |-> item_total_after_discount]

\* the per-line part of the loop of _calculate_totals
CalcItem(item) ==
    LET item_subtotal == item.quantity * item.unit_price * MicroPerCent
        item_discount_amount ==
            IF item.discount_percent > 0
            THEN (item_subtotal * item.discount_percent) \div 100
            ELSE item.discount_amount * MicroPerCent
        item_total_after_discount == item_subtotal - item_discount_amount
        item_tax == (item_total_after_discount * item.tax_percent) \div 100
    IN  [product_id |-> item.product_id,
         product_variation_id |-> item.variation_id,
         quantity |-> item.quantity,
         unit_price |-> item.unit_price * MicroPerCent,
         subtotal |-> item_subtotal,
         discount_amount |-> item_discount_amount,
         discount_percent |-> item.discount_percent,
         tax_amount |-> item_tax,
         tax_percent |-> item.tax_percent,
         total |-> item_total_after_discount + item_tax]

CalcItems(cart) == [i \in 1..Len(cart) |-> CalcItem(cart[i])]

\* _calculate_totals: the 'totals' of its result (no modelled cart makes it
\* raise, so its 'success' is always True)
CalculateTotals(cart) ==
    LET items == CalcItems(cart)
        subtotal == SumField(items, "subtotal")
        global_discount ==
            IF cart # << >> /\ cart[1].gdp >= 0
            THEN (subtotal * cart[1].gdp) \div 100 ELSE 0
        total_discount == SumField(items, "discount_amount") + global_discount
        total_tax == SumField(items, "tax_amount")
        grand_total == subtotal - total_discount + total_tax
    IN  [subtotal |-> Quantize(subtotal),
         discount_amount |-> Quantize(total_discount),
         tax_amount |-> Quantize(total_tax),
         grand_total |-> Quantize(grand_total),
         item_count |-> Len(cart),
         global_discount |-> global_discount,
         items |-> items]

-----------------------------------------------------------------------------
(* Audit trail                                                             *)

\* INSERT INTO audit_logs over a connection of its own (execute_update):
\* it raises when a named column is not declared, when the write lock is
\* held by another connection until the busy timeout, or when user_id,
\* action_type or status break NOT NULL / FOREIGN KEY / CHECK; both
\* _log_audit_event methods swallow the exception
AuditInsert(c, lockFree, cols, rec) ==
    IF /\ cols \subseteq AuditLogsColumns
       /\ lockFree
       /\ rec.user_id \in DOMAIN c.employees
       /\ rec.action_type \in AuditActionTypes
       /\ rec.status \in AuditStatuses
    THEN [c EXCEPT !.audit_logs = Append(@, rec)]
    ELSE c

\* SalesController._log_audit_event
SalesLogAuditEvent(c, lockFree, user_id, action, status) ==
    AuditInsert(c, lockFree,
                {"user_id", "action_type", "module", "details", "status",
                 "action_timestamp"},
                [user_id |-> user_id, action_type |-> action,
                 module |-> "sales", entity_id |-> 0, status |-> status])

\* ProductController._log_audit_event
ProductLogAuditEvent(c, lockFree, user_id, action, entity_type, entity_id, status) ==
    AuditInsert(c, lockFree,
                {"user_id", "action_type", "module", "entity_type",
                 "entity_id", "change_summary", "status", "action_timestamp"},
                [user_id |-> user_id, action_type |-> action,
                 module |-> entity_type, entity_id |-> entity_id,
                 status |-> status])

-----------------------------------------------------------------------------
(* DatabaseManager.get_connection                                          *)

\* the mutant commits the connection's work when the block raises
ExitConnectionCommitAlways(committed, work, raised) == work

\* leaving the 'with' block: commit when it ends or returns normally,
\* rollback when it raises
ExitConnection(committed, work, raised) ==
    IF raised THEN committed ELSE work

-----------------------------------------------------------------------------
(* SalesController._validate_cart_items                                    *)

\* the mutant leaves out the comparison of stock and quantity
ValidateLineNoStockCheck(d, item) ==
    IF item.variation_id # 0
    THEN IF ~({"stock_quantity", "name", "sku", "allow_backorders",
               "id", "product_id", "is_active"} \subseteq VariationsColumns)
         THEN [success |-> FALSE, message |-> "Validation error"]
         ELSE IF ~(/\ item.variation_id \in DOMAIN d.variations
                   /\ d.variations[item.variation_id].product_id = item.product_id
                   /\ d.variations[item.variation_id].is_active)
         THEN [success |-> FALSE, message |-> "not found or inactive"]
         ELSE [success |-> TRUE, message |-> "ok"]
    ELSE IF ~(/\ item.product_id \in DOMAIN d.products
              /\ d.products[item.product_id].is_active)
         THEN [success |-> FALSE, message |-> "not found or inactive"]
         ELSE [success |-> TRUE, message |-> "ok"]

\* _validate_cart_items, were its product query without 'AND is_active = 1'
ValidateLineInactiveAccepted(d, item) ==
    IF item.variation_id # 0
    THEN IF ~({"stock_quantity", "name", "sku", "allow_backorders",
               "id", "product_id", "is_active"} \subseteq VariationsColumns)
         THEN [success |-> FALSE, message |-> "Validation error"]
         ELSE IF ~(/\ item.variation_id \in DOMAIN d.variations
                   /\ d.variations[item.variation_id].product_id = item.product_id
                   /\ d.variations[item.variation_id].is_active)
         THEN [success |-> FALSE, message |-> "not found or inactive"]
         ELSE IF /\ d.variations[item.variation_id].stock_quantity < item.quantity
                 /\ ~d.variations[item.variation_id].allow_backorders
         THEN [success |-> FALSE, message |-> "Insufficient stock"]
         ELSE [success |-> TRUE, message |-> "ok"]
    ELSE IF ~(item.product_id \in DOMAIN d.products)
         THEN [success |-> FALSE, message |-> "not found or inactive"]
         ELSE IF /\ d.products[item.product_id].stock_quantity < item.quantity
                 /\ ~d.products[item.product_id].allow_backorders
         THEN [success |-> FALSE, message |-> "Insufficient stock"]
         ELSE [success |-> TRUE, message |-> "ok"]

\* the loop body with a variation query that runs: the line is checked on
\* its own against the variation's stock and the parent's back-order flag
ValidateLineVariationChecked(d, item) ==
    IF item.variation_id # 0
    THEN IF ~(/\ item.variation_id \in DOMAIN d.variations
              /\ d.variations[item.variation_id].product_id = item.product_id
              /\ d.variations[item.variation_id].is_active)
         THEN [success |-> FALSE, message |-> "not found or inactive"]
         ELSE IF /\ d.variations[item.variation_id].stock_quantity < item.quantity
                 /\ ~d.products[item.product_id].allow_backorders
         THEN [success |-> FALSE, message |-> "Insufficient stock"]
         ELSE [success |-> TRUE, message |-> "ok"]
    ELSE IF ~(/\ item.product_id \in DOMAIN d.products
              /\ d.products[item.product_id].is_active)
         THEN [success |-> FALSE, message |-> "not found or inactive"]
         ELSE IF /\ d.products[item.product_id].stock_quantity < item.quantity
                 /\ ~d.products[item.product_id].allow_backorders
         THEN [success |-> FALSE, message |-> "Insufficient stock"]
         ELSE [success |-> TRUE, message |-> "ok"]

\* the body of the loop of _validate_cart_items for one cart line
ValidateLine(d, item) ==
    IF item.variation_id # 0
    THEN \* SELECT stock_quantity, name, sku, allow_backorders
         \* FROM product_variations WHERE id = ? AND product_id = ? AND is_active = 1
         IF ~({"stock_quantity", "name", "sku", "allow_backorders",
               "id", "product_id", "is_active"} \subseteq VariationsColumns)
         THEN [success |-> FALSE, message |-> "Validation error"]
         ELSE IF ~(/\ item.variation_id \in DOMAIN d.variations
                   /\ d.variations[item.variation_id].product_id = item.product_id
                   /\ d.variations[item.variation_id].is_active)
         THEN [success |-> FALSE, message |-> "not found or inactive"]
         ELSE IF /\ d.variations[item.variation_id].stock_quantity < item.quantity
                 /\ ~d.variations[item.variation_id].allow_backorders
         THEN [success |-> FALSE, message |-> "Insufficient stock"]
         ELSE [success |-> TRUE, message |-> "ok"]
    ELSE \* SELECT stock_quantity, name, sku, allow_backorders
         \* FROM products WHERE id = ? AND is_active = 1
         IF ~(/\ item.product_id \in DOMAIN d.products
              /\ d.products[item.product_id].is_active)
         THEN [success |-> FALSE, message |-> "not found or inactive"]
         ELSE IF /\ d.products[item.product_id].stock_quantity < item.quantity
                 /\ ~d.products[item.product_id].allow_backorders
         THEN [success |-> FALSE, message |-> "Insufficient stock"]
         ELSE [success |-> TRUE, message |-> "ok"]

RECURSIVE ValidateCartItems(_, _)
\* _validate_cart_items: the first failing line decides
ValidateCartItems(d, cart) ==
    IF cart = << >>
    THEN [success |-> TRUE, message |-> "ok"]
    ELSE LET r == ValidateLine(d, Head(cart))
         IN  IF r.success THEN ValidateCartItems(d, Tail(cart)) ELSE r

-----------------------------------------------------------------------------
(* SalesController: the read-only steps                                    *)

\* _generate_invoice_number: today's count of invoices plus one, the NNNN
\* of YYYYMMDD-NNNN (every modelled sale is of the same day; a refund's
\* REF- number does not match the date prefix)
GenerateInvoiceNumber(d) ==
    Cardinality({i \in 1..Len(d.sales) : ~d.sales[i].is_refund}) + 1

\* _get_user_details without its WHERE clause: any id is taken for a cashier
GetUserDetailsAnyUser(d, user_id) ==
    TRUE

\* _get_user_details: the cashier row, FALSE standing for the empty dict
GetUserDetails(d, user_id) ==
    user_id \in DOMAIN d.employees /\ d.employees[user_id].is_active

\* _get_customer_details: TRUE when an active customer row was found
GetCustomerDetails(d, customer_id) ==
    customer_id \in DOMAIN d.customers /\ d.customers[customer_id].is_active

-----------------------------------------------------------------------------
(* ProductController: stock operations                                     *)

\* _get_movement_type; a reason is the set of the keywords it contains
GetMovementType(reason, direction) ==
    IF direction = "incoming"
    THEN IF "purchase" \in reason THEN "purchase"
         ELSE IF {"return", "customer"} \subseteq reason THEN "return_customer"
         ELSE IF "found" \in reason THEN "found"
         ELSE IF "transfer" \in reason THEN "transfer_in"
         ELSE IF "production" \in reason THEN "production"
         ELSE "adjustment"
    ELSE IF "sale" \in reason THEN "sale"
         ELSE IF {"return", "supplier"} \subseteq reason THEN "return_supplier"
         ELSE IF "damage" \in reason THEN "damage"
         ELSE IF "expiry" \in reason THEN "expiry"
         ELSE IF "lost" \in reason THEN "lost"
         ELSE IF "transfer" \in reason THEN "transfer_out"
         ELSE IF "write_off" \in reason THEN "write_off"
         ELSE "adjustment"

\* CHECK(reference_type IN (...)) of stock_movements; "" stands for NULL
MovementReferenceTypes ==
    {"", "sale", "purchase", "transfer", "adjustment", "production"}

RECURSIVE SumStock(_, _)
\* SELECT SUM(stock_quantity) FROM product_variations
\* WHERE product_id = ? AND is_active = 1, over the variation ids vs
SumStock(variations, vs) ==
    IF vs = {} THEN 0
    ELSE LET v == CHOOSE x \in vs : TRUE
         IN  variations[v].stock_quantity + SumStock(variations, vs \ {v})

ActiveVariationsOf(variations, product_id) ==
    {v \in DOMAIN variations :
        variations[v].product_id = product_id /\ variations[v].is_active}

\* update_stock, run over a connection of its own against the committed
\* state c; lockFree says whether no other connection holds the write lock
\* (the caller's connection does while process_sale calls it).  The result
\* carries the committed state the call leaves behind.
\* the stock status update_stock computes for the parent product: 'instock'
\* or 'outofstock' by the sign of the total, then 'lowstock' whenever the
\* total is at most the variation's low_stock_threshold
StockStatus(total_stock, low_stock_threshold) ==
    LET stock_status == IF total_stock > 0 THEN "instock" ELSE "outofstock"
    IN  IF total_stock <= low_stock_threshold THEN "lowstock" ELSE stock_status

UpdateStock(c, lockFree, variation_id, qty_change, reason, user_id, reference_type, reference_id, att) ==
    LET raised(msg) ==
            [success |-> FALSE, message |-> msg,
             c |-> ProductLogAuditEvent(c, lockFree, user_id, "update",
                                        "stock_movements", 0, "failure")]
        returned(msg) == [success |-> FALSE, message |-> msg, c |-> c]
    IN
    \* SELECT pv.*, ..., p.allow_negative_stock FROM product_variations pv JOIN products p
    IF ~("allow_negative_stock" \in ProductsColumns)
    THEN raised("Error updating stock")
    ELSE IF ~(variation_id \in DOMAIN c.variations)
    THEN returned("Product variation not found")
    ELSE
    LET variation == c.variations[variation_id]
        current_stock == variation.stock_quantity
        new_stock == current_stock + qty_change
        movement_type ==
            GetMovementType(reason, IF qty_change > 0 THEN "incoming" ELSE "outgoing")
        movement ==
            [product_id |-> variation.product_id,
             product_variation_id |-> variation_id,
             movement_type |-> movement_type,
             quantity |-> Abs(qty_change),
             balance_before |-> current_stock,
             balance_after |-> new_stock,
             reference_type |-> reference_type,
             reference_id |-> reference_id,
             att |-> att]
        provided == {"product_id", "product_variation_id", "product_name",
                     "product_sku", "product_barcode", "movement_type",
                     "quantity", "balance_before", "balance_after",
                     "reference_type", "reference_id", "reason_description",
                     "batch_number", "user_id", "notes", "movement_date",
                     "created_at", "updated_at"}
        c1 == [c EXCEPT !.stock_movements = Append(@, movement),
                        !.variations[variation_id].stock_quantity = new_stock]
        total_stock ==
            SumStock(c1.variations, ActiveVariationsOf(c1.variations, variation.product_id))
        stock_status == StockStatus(total_stock, variation.low_stock_threshold)
        c2 == IF variation.manage_stock
              THEN [c1 EXCEPT !.products[variation.product_id].stock_quantity = total_stock,
                              !.products[variation.product_id].stock_status = stock_status]
              ELSE c1
    IN
    IF new_stock < 0 /\ ~c.products[variation.product_id].allow_negative_stock
    THEN returned("Negative stock not allowed")
    ELSE IF ~lockFree
    THEN raised("Error updating stock")   \* database is locked
    ELSE IF ~(StockMovementsRequired \subseteq provided)
    THEN raised("Error updating stock")   \* NOT NULL constraint failed
    ELSE IF ~(reference_type \in MovementReferenceTypes)
    THEN raised("Error updating stock")   \* CHECK constraint failed
    ELSE IF variation.manage_stock /\ ~(stock_status \in ProductStockStatuses)
    THEN raised("Error updating stock")   \* CHECK constraint failed
    ELSE [success |-> TRUE, message |-> "Stock updated successfully",
          c |-> ProductLogAuditEvent(c2, TRUE, user_id, "update",
                                     "stock_movements", Len(c2.stock_movements),
                                     "success")]

\* the columns the INSERT INTO stock_movements of bulk_update_stock names
BulkMovementColumns ==
    {"product_variation_id", "movement_type", "quantity", "balance_before",
     "balance_after", "reason_description", "user_id", "notes", "movement_date"}

RECURSIVE BulkUpdateLoop(_, _, _)
\* the loop of bulk_update_stock over connection state w; every update has
\* a variation_id and a qty_change.  Result: the connection state and the
\* number of updates that went to 'results'
BulkUpdateLoop(w, updates, att) ==
    IF updates = << >>
    THEN [w |-> w, done |-> 0]
    ELSE
    LET u == Head(updates)
        found == u.variation_id \in DOMAIN w.variations
        current_stock == w.variations[u.variation_id].stock_quantity
        new_stock == current_stock + u.qty_change
        movement ==
            [product_id |-> 0,
             product_variation_id |-> u.variation_id,
             movement_type |-> "adjustment",
             quantity |-> Abs(u.qty_change),
             balance_before |-> current_stock,
             balance_after |-> new_stock,
             reference_type |-> "",
             reference_id |-> 0,
             att |-> att]
        applied == found /\ StockMovementsRequired \subseteq BulkMovementColumns
        w1 == IF applied
              THEN [w EXCEPT !.stock_movements = Append(@, movement),
                             !.variations[u.variation_id].stock_quantity = new_stock]
              ELSE w
        rest == BulkUpdateLoop(w1, Tail(updates), att)
    IN  [w |-> rest.w, done |-> rest.done + (IF applied THEN 1 ELSE 0)]

\* bulk_update_stock against the committed state c (called with the write
\* lock free): the committed state it leaves and what it returns
BulkUpdateStock(c, updates, user_id, att) ==
    LET r == BulkUpdateLoop(c, updates, att)
        failed == Len(updates) - r.done
        c1 == ExitConnection(c, r.w, FALSE)
    IN  [success |-> TRUE, done |-> r.done, failed |-> failed,
         c |-> ProductLogAuditEvent(c1, TRUE, user_id, "update",
                                    "stock_movements", 0,
                                    IF failed = 0 THEN "success" ELSE "partial")]

\* update_product with product_data = {'stock_quantity': qty, 'updated_by': user_id}
UpdateProduct(c, product_id, qty, user_id) ==
    IF ~(product_id \in DOMAIN c.products)
    THEN [success |-> FALSE, c |-> c]
    ELSE LET c1 == [c EXCEPT !.products[product_id].stock_quantity = qty]
         IN  [success |-> TRUE,
              c |-> ProductLogAuditEvent(ExitConnection(c, c1, FALSE), TRUE, user_id,
                                         "update", "products", product_id, "success")]

\* delete_product: the soft delete of a product and of its variations
DeleteProduct(c, product_id, user_id) ==
    IF ~(product_id \in DOMAIN c.products)
    THEN [success |-> FALSE, c |-> c]
    ELSE LET c1 == [c EXCEPT
                      !.products[product_id].is_active = FALSE,
                      !.variations =
                          [v \in DOMAIN @ |->
                              IF @[v].product_id = product_id
                              THEN [@[v] EXCEPT !.is_active = FALSE]
                              ELSE @[v]]]
         IN  [success |-> TRUE,
              c |-> ProductLogAuditEvent(ExitConnection(c, c1, FALSE), TRUE, user_id,
                                         "delete", "products", product_id, "success")]

-----------------------------------------------------------------------------
(* SalesController: the writes of process_sale, over the connection's view *)

\* _insert_sale_header: INSERT INTO sales; att is history (which call of
\* which terminal wrote the row)
InsertSaleHeader(w, invoice_no, totals, customer_id, user_id, shift_id, att) ==
    LET id == w.seq_sales + 1
        row == [id |-> id, invoice_no |-> invoice_no, is_refund |-> FALSE,
                customer_id |-> customer_id, cashier_id |-> user_id,
                subtotal |-> totals.subtotal,
                discount_amount |-> totals.discount_amount,
                tax_amount |-> totals.tax_amount,
                total |-> totals.grand_total,
                shift_id |-> shift_id, att |-> att]
        unique == \/ ~InvoiceNoUnique
                  \/ \A i \in 1..Len(w.sales) : w.sales[i].invoice_no # invoice_no
        fk == /\ customer_id = 0 \/ customer_id \in DOMAIN w.customers
              /\ user_id \in DOMAIN w.employees
    IN  IF unique /\ fk
        THEN [ok |-> TRUE, id |-> id,
              w |-> [w EXCEPT !.sales = Append(@, row), !.seq_sales = id]]
        ELSE [ok |-> FALSE, id |-> 0, w |-> w]

RECURSIVE ProcessSaleItemsFrom(_, _, _, _, _, _, _, _)
\* the loop of _process_sale_items from cart line i on.  w is the sale's
\* connection, c the committed state that update_stock and the audit
\* INSERTs work on through connections of their own while the sale's
\* connection holds the write lock
ProcessSaleItemsFrom(w, c, i, sale_id, cart, user_id, totals, att) ==
    IF i > Len(cart)
    THEN [success |-> TRUE, w |-> w, c |-> c]
    ELSE
    LET item == cart[i]
        item_calc == totals.items[i]
        row == [sale_id |-> sale_id,
                product_id |-> item.product_id,
                product_variation_id |-> item.variation_id,
                quantity |-> item.quantity,
                unit_price |-> item_calc.unit_price,
                subtotal |-> item_calc.subtotal,
                discount_amount |-> item_calc.discount_amount,
                tax_amount |-> item_calc.tax_amount,
                total |-> item_calc.total,
                return_quantity |-> 0,
                att |-> att]
        fk == /\ \E j \in 1..Len(w.sales) : w.sales[j].id = sale_id
              /\ item.variation_id = 0 \/ item.variation_id \in DOMAIN w.variations
        w1 == [w EXCEPT !.sale_items = Append(@, row)]
        stock_update ==
            UpdateStock(c, FALSE, item.variation_id, -item.quantity, {"sale"},
                        user_id, "sale", sale_id, att)
        c1 == IF item.variation_id # 0 THEN stock_update.c ELSE c
        c2 == SalesLogAuditEvent(c1, FALSE, user_id, "process_sale_item", "success")
    IN  IF ~(item.product_id \in DOMAIN w.products)
        THEN [success |-> FALSE, w |-> w, c |-> c]      \* Product not found
        ELSE IF ~fk
        THEN [success |-> FALSE, w |-> w, c |-> c]      \* FOREIGN KEY constraint failed
        ELSE IF item.variation_id # 0 /\ ~stock_update.success
        THEN [success |-> FALSE, w |-> w1, c |-> c1]    \* Stock update failed
        ELSE ProcessSaleItemsFrom(w1, c2, i + 1, sale_id, cart, user_id, totals, att)

\* _process_sale_items
ProcessSaleItems(w, c, sale_id, cart, user_id, totals, att) ==
    ProcessSaleItemsFrom(w, c, 1, sale_id, cart, user_id, totals, att)

\* _get_account_code: the settings row account_<type> when it has a value,
\* else the hard-coded default
GetAccountCode(w, account_type) ==
    LET key == AccountSettingKey[account_type]
    IN  IF key \in DOMAIN w.settings /\ w.settings[key] # 0
        THEN w.settings[key]
        ELSE IF account_type \in DOMAIN DefaultAccounts
             THEN DefaultAccounts[account_type]
             ELSE SuspenseAccount

RECURSIVE CogsOf(_, _, _)
\* the sum of the loop of _calculate_cogs over sale_items rows i..Len
CogsOf(w, sale_id, i) ==
    IF i > Len(w.sale_items) THEN 0
    ELSE LET it == w.sale_items[i]
             variation_cost ==
                 IF it.product_variation_id \in DOMAIN w.variations
                 THEN w.variations[it.product_variation_id].cost_price ELSE 0
             cost_price == IF variation_cost # 0 THEN variation_cost
                           ELSE w.products[it.product_id].cost_price
             rest == CogsOf(w, sale_id, i + 1)
         IN  IF it.sale_id = sale_id
             THEN it.quantity * cost_price * MicroPerCent + rest
             ELSE rest

\* _calculate_cogs (quantity times a cost in cents is a whole number of
\* cents, which round(.., 2) keeps)
CalculateCogs(w, sale_id) == CogsOf(w, sale_id, 1)

\* one INSERT INTO general_ledger
InsertLedgerRow(w, entry_number, account_id, debit_amount, credit_amount, transaction_id, user_id, att) ==
    LET row == [entry_number |-> entry_number, account_id |-> account_id,
                debit_amount |-> debit_amount, credit_amount |-> credit_amount,
                transaction_id |-> transaction_id, att |-> att]
        unique == \/ ~LedgerEntryNumberUnique
                  \/ \A i \in 1..Len(w.general_ledger) :
                        w.general_ledger[i].entry_number # entry_number
        fk == account_id \in w.accounts /\ user_id \in DOMAIN w.employees
    IN  IF unique /\ fk
        THEN [ok |-> TRUE, w |-> [w EXCEPT !.general_ledger = Append(@, row)]]
        ELSE [ok |-> FALSE, w |-> w]

\* _create_ledger_entry: the debit row, then the contra row under the same
\* entry number; ok = FALSE when it raises
CreateLedgerEntry(w, entry_number, debit_account, debit_amount, credit_amount, credit_account, contra_debit, contra_credit, transaction_id, user_id, att) ==
    LET r1 == InsertLedgerRow(w, entry_number, debit_account, debit_amount,
                              credit_amount, transaction_id, user_id, att)
        r2 == InsertLedgerRow(r1.w, entry_number, credit_account,
                              contra_debit, contra_credit, transaction_id, user_id, att)
    IN  IF ~r1.ok THEN r1 ELSE r2

\* _process_accounting_entries
ProcessAccountingEntries(w, sale_id, totals, user_id, att) ==
    LET cash_account == GetAccountCode(w, "cash_receivables")
        sales_account == GetAccountCode(w, "sales_revenue")
        cogs_account == GetAccountCode(w, "cost_of_goods_sold")
        inventory_account == GetAccountCode(w, "inventory_asset")
        cogs_amount == CalculateCogs(w, sale_id)
        revenue == CreateLedgerEntry(w, <<"SL", sale_id>>,
                                     cash_account, totals.grand_total, 0,
                                     sales_account, 0, totals.grand_total,
                                     sale_id, user_id, att)
        cogs == CreateLedgerEntry(revenue.w, <<"SL-COGS", sale_id>>,
                                  cogs_account, cogs_amount, 0,
                                  inventory_account, 0, cogs_amount,
                                  sale_id, user_id, att)
    IN  IF 0 \in {cash_account, sales_account, cogs_account, inventory_account}
        THEN [success |-> FALSE, w |-> w]   \* Required accounting accounts not configured
        ELSE IF ~revenue.ok THEN [success |-> FALSE, w |-> revenue.w]
        ELSE IF cogs_amount > 0
             THEN [success |-> cogs.ok, w |-> cogs.w]
             ELSE [success |-> TRUE, w |-> revenue.w]

\* _update_customer_loyalty (its audit INSERT is made while the sale's
\* connection holds the write lock)
UpdateCustomerLoyalty(w, customer_id, sale_amount) ==
    LET points_per_currency ==
            IF "loyalty_points_per_currency" \in DOMAIN w.settings
            THEN w.settings["loyalty_points_per_currency"] ELSE 1
        earned_points == (sale_amount * points_per_currency) \div (100 * MicroPerCent)
    IN  IF earned_points > 0 /\ customer_id \in DOMAIN w.customers
        THEN [w EXCEPT
                !.customers[customer_id].loyalty_points_balance = @ + earned_points,
                !.customers[customer_id].total_spent = @ + sale_amount,
                !.customers[customer_id].total_purchases = @ + 1]
        ELSE w

\* _update_cash_register
UpdateCashRegister(w, shift_id, sale_amount) ==
    IF shift_id \in DOMAIN w.sessions /\ w.sessions[shift_id].status = "open"
    THEN [w EXCEPT !.sessions[shift_id].total_sales_count = @ + 1,
                   !.sessions[shift_id].total_sales_amount = @ + sale_amount]
    ELSE w

-----------------------------------------------------------------------------
(* SalesController.process_refund                                          *)

\* the methods class SalesController defines
SalesControllerMethods ==
    {"__init__", "process_sale", "_validate_cart_items",
     "_generate_invoice_number", "_calculate_totals", "_get_customer_details",
     "_get_user_details", "_insert_sale_header", "_process_sale_items",
     "_process_accounting_entries", "_get_account_code", "_calculate_cogs",
     "_create_ledger_entry", "_update_customer_loyalty",
     "_update_cash_register", "_generate_receipt_data", "get_daily_sales",
     "get_sale_details", "process_refund", "_validate_refund_items",
     "_calculate_refund_totals", "_log_audit_event"}

\* the methods steps 5 to 8 of process_refund call, in order
RefundWriteSteps ==
    <<"_insert_refund_sale", "_process_refund_items",
      "_update_original_sale_status", "_process_refund_accounting">>

\* the columns the SELECT of _calculate_refund_totals returns
RefundTotalsSelected == {"unit_price", "discount_amount", "tax_amount", "total"}

\* the columns _calculate_refund_totals reads off the fetched row
RefundTotalsRead == {"total", "quantity"}

\* a refund request line.  variation_id is 0 for an explicit None and -1
\* when the dict has no 'product_variation_id' key
RefundItem(pid, vid, qty) ==
    [product_id |-> pid, variation_id |-> vid, quantity |-> qty]

\* _validate_refund_items: the original line a request line's key names.
\* The stored key is product_id and product_variation_id as the row gives
\* them (None for NULL); the request's key defaults the variation to the
\* integer 0, which is no stored id and not None.  Rows with the same key
\* overwrite each other in the dict, the last one stays.
OriginalItem(d, sale_id, item) ==
    LET rows == {i \in 1..Len(d.sale_items) :
                    /\ d.sale_items[i].sale_id = sale_id
                    /\ d.sale_items[i].product_id = item.product_id
                    /\ item.variation_id # -1
                    /\ d.sale_items[i].product_variation_id = item.variation_id}
    IN  IF rows = {} THEN 0 ELSE CHOOSE i \in rows : \A j \in rows : j <= i

\* original_quantity - already_returned of stored line i
MaxRefundable(d, i) == d.sale_items[i].quantity - d.sale_items[i].return_quantity

\* _validate_refund_items without the comparison with max_refundable
ValidateRefundItemNoBound(d, sale_id, item) ==
    IF OriginalItem(d, sale_id, item) = 0
    THEN [success |-> FALSE, message |-> "Item not found in original sale"]
    ELSE [success |-> TRUE, message |-> "Refund items validated"]

\* _validate_refund_items, one request line
ValidateRefundItem(d, sale_id, item) ==
    IF OriginalItem(d, sale_id, item) = 0
    THEN [success |-> FALSE, message |-> "Item not found in original sale"]
    ELSE IF item.quantity > MaxRefundable(d, OriginalItem(d, sale_id, item))
    THEN [success |-> FALSE, message |-> "Cannot refund more than max_refundable units"]
    ELSE [success |-> TRUE, message |-> "Refund items validated"]

RECURSIVE ValidateRefundItems(_, _, _)
\* _validate_refund_items: the first request line that fails decides
ValidateRefundItems(d, sale_id, items) ==
    IF items = << >>
    THEN [success |-> TRUE, message |-> "Refund items validated"]
    ELSE LET r == ValidateRefundItem(d, sale_id, Head(items))
         IN  IF r.success THEN ValidateRefundItems(d, sale_id, Tail(items)) ELSE r

\* _calculate_refund_totals: the row its SELECT fetches for a request
\* line; here a missing key and None both bind NULL
RefundTotalsRow(d, sale_id, item) ==
    LET vid == IF item.variation_id = -1 THEN 0 ELSE item.variation_id
        rows == {i \in 1..Len(d.sale_items) :
                    /\ d.sale_items[i].sale_id = sale_id
                    /\ d.sale_items[i].product_id = item.product_id
                    /\ d.sale_items[i].product_variation_id = vid}
    IN  IF rows = {} THEN 0 ELSE CHOOSE i \in rows : \A j \in rows : i <= j

RECURSIVE RefundAmount(_, _, _)
\* the sum _calculate_refund_totals builds: each found line's total in the
\* proportion of the refunded quantity (sqlite keeps the REAL total, the
\* model its micro-units)
RefundAmount(d, sale_id, items) ==
    IF items = << >> THEN 0
    ELSE LET i == RefundTotalsRow(d, sale_id, Head(items))
             part == IF i = 0 THEN 0
                     ELSE (d.sale_items[i].total * Head(items).quantity)
                            \div (IF d.sale_items[i].quantity > 0
                                  THEN d.sale_items[i].quantity ELSE 1)
         IN  part + RefundAmount(d, sale_id, Tail(items))

\* _calculate_refund_totals: reading a column the SELECT did not return
\* raises IndexError on the first line that is found; the method's own
\* handler turns it into a failure result
CalculateRefundTotals(d, sale_id, items) ==
    IF /\ \E k \in 1..Len(items) : RefundTotalsRow(d, sale_id, items[k]) # 0
       /\ ~(RefundTotalsRead \subseteq RefundTotalsSelected)
    THEN [success |-> FALSE, message |-> "Calculation error", refund_amount |-> 0]
    ELSE [success |-> TRUE, message |-> "Refund totals calculated",
          refund_amount |-> Quantize(RefundAmount(d, sale_id, items))]

\* process_refund over committed state c.  Its connection only reads up
\* to step 4; step 5 is the first of four calls of methods the class does
\* not define, so the attribute lookup raises before any write, the 'with'
\* block rolls back and the handler logs and returns a failure
ProcessRefund(c, lockFree, sale_id, items, user_id) ==
    LET found == \E i \in 1..Len(c.sales) : c.sales[i].id = sale_id
        validation_result == ValidateRefundItems(c, sale_id, items)
        calculation_result == CalculateRefundTotals(c, sale_id, items)
        raised == \E k \in 1..Len(RefundWriteSteps) :
                     ~(RefundWriteSteps[k] \in SalesControllerMethods)
    IN  IF ~found
        THEN [result |-> [success |-> FALSE, message |-> "Original sale not found"],
              c |-> ExitConnection(c, c, FALSE)]
        ELSE IF ~validation_result.success
        THEN [result |-> [success |-> FALSE, message |-> validation_result.message],
              c |-> ExitConnection(c, c, FALSE)]
        ELSE IF ~calculation_result.success
        THEN [result |-> [success |-> FALSE, message |-> calculation_result.message],
              c |-> ExitConnection(c, c, FALSE)]
        ELSE IF raised
        THEN [result |-> [success |-> FALSE, message |-> "Refund processing failed"],
              c |-> SalesLogAuditEvent(ExitConnection(c, c, TRUE), lockFree,
                                       user_id, "process_refund", "failure")]
        ELSE [result |-> [success |-> TRUE, message |-> "Refund processed successfully"],
              c |-> SalesLogAuditEvent(ExitConnection(c, c, FALSE), lockFree,
                                       user_id, "process_refund", "success")]

-----------------------------------------------------------------------------
(* Inputs                                                                  *)

LSpec == Line(1, 0, 2, 1999, 0, 0, 15, -1)   \* 2 x 19.99, tax 15%
LHalf == Line(1, 0, 1, 25, 10, 0, 0, -1)     \* 1 x 0.25, discount 10%
LMany == Line(1, 0, 3, 1999, 0, 0, 0, -1)    \* more than product 1 stocks
LVar == Line(2, 1, 1, 4999, 10, 0, 15, -1)  \* a line with a variation id
LVarTwo == Line(2, 1, 2, 4999, 10, 0, 15, -1) \* two units of variation 1
LMissing == Line(3, 0, 1, 100, 0, 0, 0, -1)     \* no product 3 exists
LFixed == Line(1, 0, 1, 1000, 0, 100, 10, -1) \* fixed discount of 1.00
LGlobal == Line(1, 0, 1, 1000, 0, 0, 15, 10)   \* cart-level discount 10%, tax 15%

Carts ==
    {<< >>, <<LSpec>>, <<LMany>>, <<LVar>>, <<LMissing>>, <<LGlobal>>, <<LFixed, LHalf>>,
     <<LVarTwo, LVar>>}

UserInputs == {1, 2}       \* employee 1 exists and is active, 2 does not exist
CustomerInputs == {0, 1}   \* no customer, or customer 1
ShiftInputs == {0}         \* no shift context

StockInputs == {-1, 3}     \* stock_quantity values given to update_product
DeltaInputs == {-1, 2}     \* qty_change values given to the stock mutators

\* process_refund requests: the sale asked for, and the lines.  RHalf and
\* RVar name one unit of a stored line, ROver and RVarAll more than a line
\* can have left, RNoKey a line without the variation key
RHalf == RefundItem(1, 0, 1)
ROver == RefundItem(1, 0, 3)
RNoKey == RefundItem(1, -1, 1)
RVar == RefundItem(2, 1, 1)
RVarAll == RefundItem(2, 1, 2)

RefundRequests == {<< >>, <<RHalf>>, <<ROver>>, <<RNoKey>>, <<RVar>>, <<RHalf, RVarAll>>}

RefundSaleInputs == {1, 2}

CalcPrices == {25, 1000, 1999}
CalcLines ==
    {Line(1, 0, q, pr, dp, da, tp, g) :
        q \in 1..MaxCalcQty, pr \in CalcPrices, dp \in {0, 10, 15},
        da \in {0, 100}, tp \in {0, 15}, g \in {-1, 10}}
CalcCarts ==
    {<< >>} \cup {<<l>> : l \in CalcLines}
            \cup {<<l, m>> : l \in CalcLines, m \in {LSpec, LHalf, LFixed}}

-----------------------------------------------------------------------------
(* Initial state                                                           *)

EmptyTotals == CalculateTotals(<< >>)

\* the database after init_db, two create_product calls (a simple product
\* 1, a variable product 2 with variation 1), one customer and one open
\* cash-register session; accts is the content of the accounts table,
\* which no code of the repository fills
InitDB(backorders, accts) ==
    [products |->
        (1 :> [is_active |-> TRUE, stock_quantity |-> 2,
               allow_backorders |-> backorders, cost_price |-> 1000,
               stock_status |-> "instock", low_stock_threshold |-> 5]
         @@
         2 :> [is_active |-> TRUE, stock_quantity |-> 2,
               allow_backorders |-> FALSE, cost_price |-> 2000,
               stock_status |-> "instock", low_stock_threshold |-> 5]),
     variations |->
        (1 :> [product_id |-> 2, is_active |-> TRUE, stock_quantity |-> 2,
               cost_price |-> 2000, manage_stock |-> TRUE,
               low_stock_threshold |-> 5]),
     employees |-> (1 :> [is_active |-> TRUE]),
     customers |->
        (1 :> [is_active |-> TRUE, loyalty_points_balance |-> 0,
               total_spent |-> 0, total_purchases |-> 0]),
     sessions |->
        (1 :> [status |-> "open", total_sales_count |-> 0,
               total_sales_amount |-> 0]),
     accounts |-> accts,
     settings |-> ("loyalty_points_per_currency" :> 1),
     sales |-> << >>,
     seq_sales |-> 0,
     sale_items |-> << >>,
     stock_movements |-> << >>,
     general_ledger |-> << >>,
     audit_logs |-> << >>]

\* view[p] while terminal p has no open transaction
NoView == InitDB(FALSE, {})

IdleLoc ==
    [cart |-> << >>, customer_id |-> 0, user_id |-> 0, shift_id |-> 0,
     invoice_no |-> 0, totals |-> EmptyTotals, sale_id |-> 0, err |-> "",
     att |-> 0,
     result |-> [success |-> FALSE, message |-> "", invoice_no |-> 0,
                 sale_id |-> 0]]

CalcIdle == [cart |-> << >>, done |-> FALSE, totals |-> EmptyTotals]

\* refund[p] while terminal p is not in process_refund
\* hash_password on the passwords tried: SHA256 is taken to be free of
\* collisions on them
HashPassword(password) == "sha256:" \o password

\* the row _insert_default_admin creates, as far as login uses it; last_login
\* is 0 for NULL and 1 for a timestamp
DefaultAdmin ==
    [username |-> "admin", passcode_hash |-> HashPassword("admin123"),
     is_active |-> TRUE, is_locked |-> FALSE, failed_login_attempts |-> 0,
     last_login |-> 0]

\* max_attempts of _log_failed_login_attempt
MaxFailedAttempts == 5

UsernameInputs == {"admin", "nobody"}

PasswordInputs == {"admin123", "wrong"}

\* the employees rows that failed logins made one after the other lead to
EmployeeInputs ==
    {[DefaultAdmin EXCEPT !.failed_login_attempts = n,
                          !.is_locked = (n >= MaxFailedAttempts)] :
        n \in 0 .. MaxFailedAttempts}

NoUser == [found |-> FALSE, is_locked |-> FALSE, failed_login_attempts |-> 0]

LoginResult(success, message) == [success |-> success, message |-> message]

\* no login call in progress
LoginIdle ==
    [pc |-> "idle", username |-> "", password |-> "", user |-> NoUser,
     current_attempts |-> 0, result |-> LoginResult(FALSE, "")]

\* CHECK(check_in_method IN (...)) of attendance
CheckInMethods == {"pin", "biometric", "card", "mobile", "manual"}

\* UNIQUE(employee_id, date) of attendance
AttendanceUniquePerDay == TRUE

MethodInputs == {"manual", "face"}

EmployeeIdInputs == {1, 2}

\* days the calendar may reach
MaxDays == 2

\* an attendance row; times are instants in the order they were taken, a
\* check_out_time of 0 is NULL
AttendanceRow(employee_id, day, check_in_time, check_out_time, method) ==
    [employee_id |-> employee_id, date |-> day, check_in_time |-> check_in_time,
     check_out_time |-> check_out_time, check_in_method |-> method,
     total_worked_minutes |-> IF check_out_time = 0 THEN 0
                              ELSE check_out_time - check_in_time]

\* the tables clock_in and clock_out of employee 1 on day 1 lead to
AttendanceInputs ==
    {<< >>, <<AttendanceRow(1, 1, 1, 0, "manual")>>, <<AttendanceRow(1, 1, 1, 2, "manual")>>}

\* attendance_id -1 is None
HrResult(success, message, attendance_id) ==
    [success |-> success, message |-> message, attendance_id |-> attendance_id]

\* no HRController call made yet
HrIdle == [op |-> "", employee_id |-> 0, method |-> "", result |-> HrResult(FALSE, "", -1)]

\* Python values as their type and their str(): the model compares values
\* of different types
PyStr(s) == [tag |-> "str", s |-> s]

PyInt(s) == [tag |-> "int", s |-> s]

PyBool(b) == [tag |-> "bool", s |-> IF b THEN "True" ELSE "False"]

PyList(s) == [tag |-> "list", s |-> s]

\* what a call that raised gives its caller
PyRaised(s) == [tag |-> "raised", s |-> s]

\* the strings int() accepts, among those that are drawn
IntLiterals == {"5", "7"}

\* CHECK(setting_type IN (...)) of settings
SettingTypes == {"string", "integer", "decimal", "boolean", "json", "array", "object"}

KeyInputs == {"theme", "tax_rate"}

\* values given to set_setting
ValueInputs == {PyStr("abc"), PyStr("7"), PyInt("5"), PyBool(FALSE)}

\* setting_type given to set_setting; "" is None
TypeInputs == {"", "integer", "boolean", "text"}

\* defaults given to get_setting
DefaultInputs == {PyStr("d1"), PyStr("d2"), PyList("[]")}

\* ConfigManager calls made on one instance
MaxConfigCalls == 3

\* a new ConfigManager on a settings table without the keys drawn: no row,
\* empty _cache, empty lru_cache, no call made, no value written
ConfigIdle ==
    [settings |-> [k \in {} |-> 0], cache |-> [k \in {} |-> 0], lru |-> {},
     calls |-> 0,
     last |-> [op |-> "", key |-> "", arg |-> PyStr(""), result |-> PyStr("")],
     written |-> [k \in {} |-> 0]]

\* no classification run: SUM(stock_quantity) of the active variations, the
\* variation's low_stock_threshold, and the status computed from them
StatusIdle == [total_stock |-> 0, low_stock_threshold |-> 0, stock_status |-> "", done |-> FALSE]

\* totals and thresholds on both sides of 0 and of each other (the column
\* default of low_stock_threshold is 5)
TotalStockInputs == -3 .. 12

ThresholdInputs == 0 .. 6

RefundIdle ==
    [att |-> 0, sale_id |-> 0, items |-> << >>,
     result |-> [success |-> FALSE, message |-> ""]]

ChartOfAccounts == {DefaultAccounts[k] : k \in DOMAIN DefaultAccounts}

Init ==
    /\ \E backorders \in BOOLEAN, accts \in {{}, ChartOfAccounts} :
          db = InitDB(backorders, accts)
    /\ view = [p \in Procs |-> NoView]
    /\ lock = 0
    /\ pc = [p \in Procs |-> "idle"]
    /\ loc = [p \in Procs |-> IdleLoc]
    /\ calls = 0
    /\ init_qty = [products |-> [i \in DOMAIN db.products |-> db.products[i].stock_quantity],
                   variations |-> [i \in DOMAIN db.variations |-> db.variations[i].stock_quantity]]
    /\ calc = CalcIdle
    /\ refund = [p \in Procs |-> RefundIdle]
    /\ restock = StatusIdle
    /\ employee = DefaultAdmin
    /\ login = [p \in Procs |-> LoginIdle]
    /\ attendance = << >>
    /\ today = 1
    /\ hr = HrIdle
    /\ config = ConfigIdle

\* the cart of the sale a refund is asked against: two lines of quantity
\* 2, one without and one with a variation
RefundedCart == <<LSpec, Line(2, 1, 2, 4999, 10, 0, 15, -1)>>

\* how many units of the two lines earlier refunds have taken back
RefundReturned == {<<0, 0>>, <<1, 2>>}

\* a database that holds sale 1 of RefundedCart, the rows as the INSERTs of
\* _insert_sale_header and _process_sale_items write them (a line without
\* variation stores NULL) and return_quantity as given
SaleFixture(d, returned) ==
    LET totals == CalculateTotals(RefundedCart)
        header == [id |-> 1, invoice_no |-> 1, is_refund |-> FALSE,
                   customer_id |-> 0, cashier_id |-> 1,
                   subtotal |-> totals.subtotal,
                   discount_amount |-> totals.discount_amount,
                   tax_amount |-> totals.tax_amount,
                   total |-> totals.grand_total,
                   shift_id |-> 0, att |-> 0]
        rows == [i \in 1..Len(RefundedCart) |->
                   [sale_id |-> 1,
                    product_id |-> RefundedCart[i].product_id,
                    product_variation_id |-> RefundedCart[i].variation_id,
                    quantity |-> RefundedCart[i].quantity,
                    unit_price |-> totals.items[i].unit_price,
                    subtotal |-> totals.items[i].subtotal,
                    discount_amount |-> totals.items[i].discount_amount,
                    tax_amount |-> totals.items[i].tax_amount,
                    total |-> totals.items[i].total,
                    return_quantity |-> returned[i],
                    att |-> 0]]
    IN  [d EXCEPT !.sales = <<header>>, !.seq_sales = 1, !.sale_items = rows]

\* process_refund is called against a stored sale
RefundInit ==
    /\ \E accts \in {{}, ChartOfAccounts}, returned \in RefundReturned :
          db = SaleFixture(InitDB(FALSE, accts), returned)
    /\ view = [p \in Procs |-> NoView]
    /\ lock = 0
    /\ pc = [p \in Procs |-> "idle"]
    /\ loc = [p \in Procs |-> IdleLoc]
    /\ calls = 0
    /\ init_qty = [products |-> [i \in DOMAIN db.products |-> db.products[i].stock_quantity],
                   variations |-> [i \in DOMAIN db.variations |-> db.variations[i].stock_quantity]]
    /\ calc = CalcIdle
    /\ refund = [p \in Procs |-> RefundIdle]
    /\ restock = StatusIdle
    /\ employee = DefaultAdmin
    /\ login = [p \in Procs |-> LoginIdle]
    /\ attendance = << >>
    /\ today = 1
    /\ hr = HrIdle
    /\ config = ConfigIdle

-----------------------------------------------------------------------------
(* process_sale, one terminal per p                                        *)

\* history: the call of process_sale terminal p is in
Att(p) == loc[p].att

\* a failure result that drops the reason
FailureWithoutMessage(message) ==
    [success |-> FALSE, message |-> "", invoice_no |-> 0, sale_id |-> 0]

\* the dict every failing return of process_sale builds
Failure(message) ==
    [success |-> FALSE, message |-> message, invoice_no |-> 0, sale_id |-> 0]

\* the call: the UI hands over a cart, a customer, a cashier and a shift;
\* 'with self.db.get_connection()' opens the connection
SaleBegin(p) ==
    /\ pc[p] = "idle"
    /\ calls < MaxCalls
    /\ \E cart \in Carts, customer_id \in CustomerInputs,
          user_id \in UserInputs, shift_id \in ShiftInputs :
          loc' = [loc EXCEPT ![p] =
                    [IdleLoc EXCEPT !.cart = cart, !.customer_id = customer_id,
                                    !.user_id = user_id, !.shift_id = shift_id,
                                    !.att = calls + 1]]
    /\ pc' = [pc EXCEPT ![p] = "validate"]
    /\ calls' = calls + 1
    /\ UNCHANGED <<db, view, lock, init_qty, calc, refund, restock, employee, login, attendance, today, hr, config>>

\* step 1: _validate_cart_items; on failure the early return leaves the
\* 'with' block normally, which commits a connection that wrote nothing
SaleValidate(p) ==
    /\ pc[p] = "validate"
    /\ LET r == ValidateCartItems(db, loc[p].cart)
       IN  IF r.success
           THEN /\ pc' = [pc EXCEPT ![p] = "prepare"]
                /\ loc' = loc
                /\ db' = db
           ELSE /\ pc' = [pc EXCEPT ![p] = "done"]
                /\ loc' = [loc EXCEPT ![p].result = Failure(r.message)]
                /\ db' = ExitConnection(db, db, FALSE)
    /\ UNCHANGED <<view, lock, calls, init_qty, calc, refund, restock, employee, login, attendance, today, hr, config>>

\* steps 2-5: invoice number, totals, customer and cashier lookups (reads)
SalePrepare(p) ==
    /\ pc[p] = "prepare"
    /\ IF GetUserDetails(db, loc[p].user_id)
       THEN /\ pc' = [pc EXCEPT ![p] = "header"]
            /\ loc' = [loc EXCEPT ![p].invoice_no = GenerateInvoiceNumber(db),
                                  ![p].totals = CalculateTotals(loc[p].cart)]
            /\ db' = db
       ELSE /\ pc' = [pc EXCEPT ![p] = "done"]
            /\ loc' = [loc EXCEPT ![p].invoice_no = GenerateInvoiceNumber(db),
                                  ![p].totals = CalculateTotals(loc[p].cart),
                                  ![p].result = Failure("Cashier not found or inactive")]
            /\ db' = ExitConnection(db, db, FALSE)
    /\ UNCHANGED <<view, lock, calls, init_qty, calc, refund, restock, employee, login, attendance, today, hr, config>>

\* step 6: _insert_sale_header, the connection's first write: sqlite3
\* begins the transaction and the INSERT takes the write lock
SaleInsertHeader(p) ==
    /\ pc[p] = "header"
    /\ lock = 0
    /\ LET r == InsertSaleHeader(db, loc[p].invoice_no, loc[p].totals,
                                 loc[p].customer_id, loc[p].user_id,
                                 loc[p].shift_id, Att(p))
       IN  /\ view' = [view EXCEPT ![p] = r.w]
           /\ loc' = [loc EXCEPT ![p].sale_id = r.id,
                                 ![p].err = IF r.ok THEN "" ELSE "header"]
           /\ pc' = [pc EXCEPT ![p] = IF r.ok THEN "items" ELSE "finalize"]
    /\ lock' = p
    /\ UNCHANGED <<db, calls, init_qty, calc, refund, restock, employee, login, attendance, today, hr, config>>

\* step 6 while another connection holds the write lock past the busy
\* timeout: the INSERT raises 'database is locked'
SaleHeaderLocked(p) ==
    /\ pc[p] = "header"
    /\ lock # 0 /\ lock # p
    /\ loc' = [loc EXCEPT ![p].err = "locked"]
    /\ pc' = [pc EXCEPT ![p] = "finalize"]
    /\ UNCHANGED <<db, view, lock, calls, init_qty, calc, refund, restock, employee, login, attendance, today, hr, config>>

\* step 7: _process_sale_items
SaleItems(p) ==
    /\ pc[p] = "items"
    /\ LET r == ProcessSaleItems(view[p], db, loc[p].sale_id, loc[p].cart,
                                 loc[p].user_id, loc[p].totals, Att(p))
       IN  /\ view' = [view EXCEPT ![p] = r.w]
           /\ db' = r.c
           /\ loc' = [loc EXCEPT ![p].err = IF r.success THEN "" ELSE "items"]
           /\ pc' = [pc EXCEPT ![p] = IF r.success THEN "accounting" ELSE "finalize"]
    /\ UNCHANGED <<lock, calls, init_qty, calc, refund, restock, employee, login, attendance, today, hr, config>>

\* step 8: _process_accounting_entries
SaleAccounting(p) ==
    /\ pc[p] = "accounting"
    /\ LET r == ProcessAccountingEntries(view[p], loc[p].sale_id, loc[p].totals,
                                         loc[p].user_id, Att(p))
       IN  /\ view' = [view EXCEPT ![p] = r.w]
           /\ loc' = [loc EXCEPT ![p].err = IF r.success THEN "" ELSE "accounting"]
    /\ pc' = [pc EXCEPT ![p] = "finalize"]
    /\ UNCHANGED <<db, lock, calls, init_qty, calc, refund, restock, employee, login, attendance, today, hr, config>>

\* the rest of the call.  With an error pending: the raise leaves the
\* 'with' block (rollback), the handler logs and returns the failure.
\* Otherwise steps 9-12: loyalty, cash register, commit, audit, receipt.
SaleFinalize(p) ==
    /\ pc[p] = "finalize"
    /\ LET mine == IF lock = p THEN view[p] ELSE db
           w1 == IF loc[p].customer_id # 0
                 THEN UpdateCustomerLoyalty(mine, loc[p].customer_id,
                                            loc[p].totals.grand_total)
                 ELSE mine
           w2 == IF loc[p].shift_id # 0
                 THEN UpdateCashRegister(w1, loc[p].shift_id,
                                         loc[p].totals.grand_total)
                 ELSE w1
           raised == loc[p].err # ""
           left == ExitConnection(db, IF raised THEN mine ELSE w2, raised)
           free == lock = 0 \/ lock = p
       IN  /\ db' = SalesLogAuditEvent(left, free, loc[p].user_id, "process_sale",
                                       IF raised THEN "failure" ELSE "success")
           /\ loc' = [loc EXCEPT ![p].result =
                        IF raised
                        THEN Failure("Sale processing failed")
                        ELSE [success |-> TRUE,
                              message |-> "Sale processed successfully",
                              invoice_no |-> loc[p].invoice_no,
                              sale_id |-> loc[p].sale_id]]
    /\ view' = [view EXCEPT ![p] = NoView]
    /\ lock' = IF lock = p THEN 0 ELSE lock
    /\ pc' = [pc EXCEPT ![p] = "done"]
    /\ UNCHANGED <<calls, init_qty, calc, refund, restock, employee, login, attendance, today, hr, config>>

\* the caller takes the result; the terminal is free for the next sale
SaleReturn(p) ==
    /\ pc[p] = "done"
    /\ pc' = [pc EXCEPT ![p] = "idle"]
    /\ loc' = [loc EXCEPT ![p] = IdleLoc]
    /\ UNCHANGED <<db, view, lock, calls, init_qty, calc, refund, restock, employee, login, attendance, today, hr, config>>

-----------------------------------------------------------------------------
(* Product-controller calls made from the product screen; each runs while  *)
(* no sale holds the write lock                                            *)

CallUpdateProduct ==
    /\ lock = 0 /\ calls < MaxCalls
    /\ \E product_id \in {1, 3}, qty \in StockInputs :
          db' = UpdateProduct(db, product_id, qty, 1).c
    /\ calls' = calls + 1
    /\ UNCHANGED <<view, lock, pc, loc, init_qty, calc, refund, restock, employee, login, attendance, today, hr, config>>

CallDeleteProduct ==
    /\ lock = 0 /\ calls < MaxCalls
    /\ \E product_id \in {1, 2} : db' = DeleteProduct(db, product_id, 1).c
    /\ calls' = calls + 1
    /\ UNCHANGED <<view, lock, pc, loc, init_qty, calc, refund, restock, employee, login, attendance, today, hr, config>>

CallUpdateStock ==
    /\ lock = 0 /\ calls < MaxCalls
    /\ \E qty_change \in DeltaInputs :
          db' = UpdateStock(db, TRUE, 1, qty_change, {"adjustment"},
                            1, "adjustment", 0, calls + 1).c
    /\ calls' = calls + 1
    /\ UNCHANGED <<view, lock, pc, loc, init_qty, calc, refund, restock, employee, login, attendance, today, hr, config>>

CallBulkUpdateStock ==
    /\ lock = 0 /\ calls < MaxCalls
    /\ \E qty_change \in DeltaInputs :
          db' = BulkUpdateStock(db, <<[variation_id |-> 1, qty_change |-> qty_change]>>,
                                1, calls + 1).c
    /\ calls' = calls + 1
    /\ UNCHANGED <<view, lock, pc, loc, init_qty, calc, refund, restock, employee, login, attendance, today, hr, config>>

-----------------------------------------------------------------------------
(* process_refund, called from the sales screen of terminal p              *)

\* the whole call: it takes no write lock, because it fails before its
\* first write; the audit INSERT of its handler needs the lock free
RefundCall(p) ==
    /\ pc[p] = "idle"
    /\ calls < MaxCalls
    /\ \E sale_id \in RefundSaleInputs, items \in RefundRequests :
          LET r == ProcessRefund(db, lock = 0, sale_id, items, 1)
          IN  /\ db' = r.c
              /\ refund' = [refund EXCEPT ![p] =
                              [att |-> calls + 1, sale_id |-> sale_id,
                               items |-> items, result |-> r.result]]
    /\ pc' = [pc EXCEPT ![p] = "refunded"]
    /\ calls' = calls + 1
    /\ UNCHANGED <<view, lock, loc, init_qty, calc, restock, employee, login, attendance, today, hr, config>>

\* the caller takes the result
RefundReturn(p) ==
    /\ pc[p] = "refunded"
    /\ pc' = [pc EXCEPT ![p] = "idle"]
    /\ refund' = [refund EXCEPT ![p] = RefundIdle]
    /\ UNCHANGED <<db, view, lock, loc, calls, init_qty, calc, restock, employee, login, attendance, today, hr, config>>

-----------------------------------------------------------------------------
(* A stand-alone call of _calculate_totals                                 *)

CalcApply ==
    /\ ~calc.done
    /\ calc' = [calc EXCEPT !.done = TRUE, !.totals = CalculateTotals(calc.cart)]
    /\ UNCHANGED <<db, view, lock, pc, loc, calls, init_qty, refund, restock, employee, login, attendance, today, hr, config>>

-----------------------------------------------------------------------------
(* A stand-alone call of _update_customer_loyalty                          *)

\* the call step 9 of process_sale makes, for customer 1 and the grand
\* total of calc.cart, on a connection that then commits
LoyaltyApply ==
    /\ ~calc.done
    /\ LET totals == CalculateTotals(calc.cart)
       IN  /\ calc' = [calc EXCEPT !.done = TRUE, !.totals = totals]
           /\ db' = ExitConnection(db, UpdateCustomerLoyalty(db, 1, totals.grand_total),
                                   FALSE)
    /\ UNCHANGED <<view, lock, pc, loc, calls, init_qty, refund, restock, employee, login, attendance, today, hr, config>>

-----------------------------------------------------------------------------
(* A stand-alone run of update_stock's stock-status classification         *)

StatusApply ==
    /\ ~restock.done
    /\ restock' = [restock EXCEPT
                     !.done = TRUE,
                     !.stock_status = StockStatus(restock.total_stock,
                                                  restock.low_stock_threshold)]
    /\ UNCHANGED <<db, view, lock, pc, loc, calls, init_qty, calc, refund, employee, login, attendance, today, hr, config>>

-----------------------------------------------------------------------------
(* AuthController.login.  Every execute_query and execute_update opens its *)
(* own connection and commits, so each is one step.  _log_audit_event      *)
(* names the column 'details', which audit_logs does not have: its INSERT  *)
(* raises, the error is printed and no row is written.                     *)

AuthUnchanged == UNCHANGED <<db, view, lock, pc, loc, init_qty, calc, refund, restock, attendance, today, hr, config>>

\* SELECT ... FROM employees WHERE username = ? AND passcode_hash = ? AND is_active = 1
CredentialsQuery(e, username, hashed_password) ==
    IF e.username = username /\ e.passcode_hash = hashed_password /\ e.is_active
    THEN <<e>>
    ELSE << >>

\* login up to the decision its first query allows: no row, a locked
\* account, or on to the reset of the counter (password_expiry_date is not
\* among the selected columns, so the expiry check is never taken)
LoginQuery(p) ==
    /\ login[p].pc = "idle"
    /\ calls < MaxCalls
    /\ calls' = calls + 1
    /\ \E username \in UsernameInputs, password \in PasswordInputs :
         LET result == CredentialsQuery(employee, username, HashPassword(password))
             call == [LoginIdle EXCEPT !.username = username, !.password = password]
         IN  login' = [login EXCEPT ![p] =
                 IF result = << >>
                 THEN [call EXCEPT !.pc = "log_failed"]
                 ELSE IF result[1].is_locked
                 THEN [call EXCEPT
                         !.pc = "done",
                         !.result = LoginResult(FALSE,
                             "Account is locked. Please contact administrator.")]
                 ELSE [call EXCEPT
                         !.pc = "reset",
                         !.user = [found |-> TRUE,
                                   is_locked |-> result[1].is_locked,
                                   failed_login_attempts |->
                                       result[1].failed_login_attempts]]]
    /\ UNCHANGED employee
    /\ AuthUnchanged

\* _log_failed_login_attempt: SELECT id, failed_login_attempts WHERE username = ?
FailedAttemptSelect(p) ==
    /\ login[p].pc = "log_failed"
    /\ login' = [login EXCEPT ![p] =
            IF employee.username = login[p].username
            THEN [@ EXCEPT !.pc = "update_attempts",
                           !.current_attempts = employee.failed_login_attempts]
            ELSE [@ EXCEPT !.pc = "done",
                           !.result = LoginResult(FALSE, "Invalid username or password")]]
    /\ UNCHANGED <<employee, calls, attendance, today, hr, config>>
    /\ AuthUnchanged

\* _log_failed_login_attempt: UPDATE employees SET failed_login_attempts = ?
FailedAttemptUpdate(p) ==
    /\ login[p].pc = "update_attempts"
    /\ LET new_attempts == login[p].current_attempts + 1
       IN  /\ employee' = [employee EXCEPT !.failed_login_attempts = new_attempts]
           /\ login' = [login EXCEPT ![p] =
                   IF new_attempts >= MaxFailedAttempts
                   THEN [@ EXCEPT !.pc = "lock"]
                   ELSE [@ EXCEPT !.pc = "done",
                                  !.result = LoginResult(FALSE,
                                                 "Invalid username or password")]]
    /\ UNCHANGED calls
    /\ AuthUnchanged

\* _log_failed_login_attempt: UPDATE employees SET is_locked = 1
FailedAttemptLock(p) ==
    /\ login[p].pc = "lock"
    /\ employee' = [employee EXCEPT !.is_locked = TRUE]
    /\ login' = [login EXCEPT ![p] =
            [@ EXCEPT !.pc = "done",
                      !.result = LoginResult(FALSE, "Invalid username or password")]]
    /\ UNCHANGED calls
    /\ AuthUnchanged

\* _reset_failed_login_attempts
ResetFailedLoginAttempts(p) ==
    /\ login[p].pc = "reset"
    /\ employee' = [employee EXCEPT !.failed_login_attempts = 0]
    /\ login' = [login EXCEPT ![p].pc = "last_login"]
    /\ UNCHANGED calls
    /\ AuthUnchanged

\* _update_last_login, and the rest of login, which touches no table
UpdateLastLogin(p) ==
    /\ login[p].pc = "last_login"
    /\ employee' = [employee EXCEPT !.last_login = 1]
    /\ login' = [login EXCEPT ![p] =
            [@ EXCEPT !.pc = "done", !.result = LoginResult(TRUE, "Login successful")]]
    /\ UNCHANGED calls
    /\ AuthUnchanged

\* the caller has the result
LoginReturn(p) ==
    /\ login[p].pc = "done"
    /\ login' = [login EXCEPT ![p] = LoginIdle]
    /\ UNCHANGED <<employee, calls, attendance, today, hr, config>>
    /\ AuthUnchanged

-----------------------------------------------------------------------------
(* HRController.clock_in and clock_out, one call at a time.  The audit     *)
(* INSERT of HRController._log_audit_event names the column 'details' and  *)
(* writes nothing.                                                         *)

HrUnchanged ==
    UNCHANGED <<db, view, lock, pc, loc, init_qty, calc, refund, restock, employee, login, config>>

\* datetime.now(): later than every instant in the table
Now == calls + 3

\* the rows of an employee for a day, by id
RecordsOf(a, employee_id, day) ==
    {i \in DOMAIN a : a[i].employee_id = employee_id /\ a[i].date = day}

\* clock_in(employee_id, method): the result and the table afterwards
ClockInOutcome(a, employee_id, method) ==
    LET employee_result ==
            employee_id \in DOMAIN db.employees /\ db.employees[employee_id].is_active
        existing_result == RecordsOf(a, employee_id, today)
        attendance_record == CHOOSE i \in existing_result : \A j \in existing_result : i <= j
        inserted == AttendanceRow(employee_id, today, Now, 0, method)
    IN  IF ~employee_result
        THEN [result |-> HrResult(FALSE, "Employee not found or inactive", -1), a |-> a]
        ELSE IF existing_result # {} /\ a[attendance_record].check_out_time = 0
        THEN [result |-> HrResult(FALSE, "Already clocked in today", attendance_record),
              a |-> a]
        ELSE IF ~(method \in CheckInMethods)
        THEN [result |-> HrResult(FALSE, "Error recording clock-in", -1), a |-> a]
        ELSE IF AttendanceUniquePerDay /\ existing_result # {}
        THEN [result |-> HrResult(FALSE, "Error recording clock-in", -1), a |-> a]
        \* SELECT last_insert_rowid() runs on a new connection and gives 0
        ELSE [result |-> HrResult(TRUE, "Clock-in recorded successfully", 0),
              a |-> Append(a, inserted)]

\* clock_out(employee_id): the result and the table afterwards
ClockOutOutcome(a, employee_id) ==
    LET open == {i \in RecordsOf(a, employee_id, today) : a[i].check_out_time = 0}
        attendance_id ==
            CHOOSE i \in open : \A j \in open : a[i].check_in_time >= a[j].check_in_time
    IN  IF open = {}
        THEN [result |-> HrResult(FALSE, "No active clock-in found for today", -1), a |-> a]
        ELSE [result |-> HrResult(TRUE, "Clock-out recorded successfully", attendance_id),
              a |-> [a EXCEPT ![attendance_id] =
                        AttendanceRow(@.employee_id, @.date, @.check_in_time, Now,
                                      @.check_in_method)]]

ClockIn(employee_id, method) ==
    /\ calls < MaxCalls
    /\ calls' = calls + 1
    /\ LET o == ClockInOutcome(attendance, employee_id, method)
       IN  /\ attendance' = o.a
           /\ hr' = [op |-> "clock_in", employee_id |-> employee_id, method |-> method,
                     result |-> o.result]
    /\ UNCHANGED today
    /\ HrUnchanged

ClockOut(employee_id) ==
    /\ calls < MaxCalls
    /\ calls' = calls + 1
    /\ LET o == ClockOutOutcome(attendance, employee_id)
       IN  /\ attendance' = o.a
           /\ hr' = [op |-> "clock_out", employee_id |-> employee_id, method |-> "manual",
                     result |-> o.result]
    /\ UNCHANGED today
    /\ HrUnchanged

\* the date changes
Midnight ==
    /\ today < MaxDays
    /\ today' = today + 1
    /\ UNCHANGED <<attendance, hr, calls, config>>
    /\ HrUnchanged

-----------------------------------------------------------------------------
(* ConfigManager.get_setting and set_setting.  The values and types drawn  *)
(* reach the branches for bool, int and str values and for the types       *)
(* 'string', 'integer' and 'boolean'; the float, list, dict, 'decimal',    *)
(* 'json' and 'array' branches are not reached by them.                    *)

ConfigUnchanged ==
    UNCHANGED <<db, view, lock, pc, loc, calls, init_qty, calc, refund, restock, employee,
                login, attendance, today, hr>>

\* str(value)
Str(v) == v.s

\* bool(value)
Truth(v) ==
    IF v.tag = "bool" THEN v.s = "True"
    ELSE IF v.tag = "int" THEN v.s # "0"
    ELSE IF v.tag = "list" THEN v.s # "[]"
    ELSE v.s # ""

\* str.lower() on the strings that are stored
Lower(s) == IF s = "True" THEN "true" ELSE IF s = "False" THEN "false" ELSE s

\* lru_cache hashes the arguments of get_setting
Hashable(v) == v.tag # "list"

\* get_setting: the value parsed according to the type of its row
ParseValue(value, setting_type, default) ==
    IF setting_type = "integer"
    THEN IF value \in IntLiterals THEN PyInt(value) ELSE default
    ELSE IF setting_type = "boolean"
    THEN PyBool(Lower(value) \in {"true", "1", "yes", "on"})
    ELSE PyStr(value)

\* set_setting: the type and the string it stores for a value
StoredForm(value, setting_type) ==
    IF setting_type = ""
    THEN IF value.tag = "bool"
         THEN [setting_type |-> "boolean",
               str_value |-> IF value.s = "True" THEN "true" ELSE "false"]
         ELSE IF value.tag = "int"
         THEN [setting_type |-> "integer", str_value |-> Str(value)]
         ELSE [setting_type |-> "string", str_value |-> Str(value)]
    ELSE IF setting_type = "boolean"
    THEN [setting_type |-> setting_type,
          str_value |-> IF Truth(value) THEN "true" ELSE "false"]
    ELSE [setting_type |-> setting_type, str_value |-> Str(value)]

\* f without key k
Without(f, k) == [x \in DOMAIN f \ {k} |-> f[x]]

\* f with key k bound to v
With(f, k, v) == [x \in DOMAIN f \cup {k} |-> IF x = k THEN v ELSE f[x]]

\* the body of get_setting, behind the lru_cache: the value returned and
\* the _cache afterwards
GetSettingBody(c, key, default) ==
    IF key \in DOMAIN c.cache
    THEN [value |-> c.cache[key], cache |-> c.cache]
    ELSE IF ~(key \in DOMAIN c.settings)
    THEN [value |-> default, cache |-> c.cache]
    ELSE LET setting == c.settings[key]
             parsed_value == ParseValue(setting.setting_value, setting.setting_type, default)
         IN  [value |-> parsed_value, cache |-> With(c.cache, key, parsed_value)]

GetSetting(key, default) ==
    /\ config.calls < MaxConfigCalls
    /\ LET hit == {e \in config.lru : e.key = key /\ e.default = default}
           body == GetSettingBody(config, key, default)
           result == IF ~Hashable(default) THEN PyRaised("TypeError")
                     ELSE IF hit # {} THEN (CHOOSE e \in hit : TRUE).value
                     ELSE body.value
       IN  config' = [config EXCEPT
                        !.calls = @ + 1,
                        !.cache = IF Hashable(default) /\ hit = {} THEN body.cache ELSE @,
                        !.lru = IF Hashable(default) /\ hit = {}
                                THEN @ \cup {[key |-> key, default |-> default,
                                              value |-> body.value]}
                                ELSE @,
                        !.last = [op |-> "get_setting", key |-> key, arg |-> default,
                                  result |-> result]]
    /\ ConfigUnchanged

SetSetting(key, value, setting_type) ==
    /\ config.calls < MaxConfigCalls
    /\ LET stored == StoredForm(value, setting_type)
           row == [setting_value |-> stored.str_value, setting_type |-> stored.setting_type]
           ok == stored.setting_type \in SettingTypes
       IN  config' =
             IF ok
             THEN [config EXCEPT
                     !.calls = @ + 1,
                     !.settings = With(@, key, row),
                     !.cache = Without(@, key),
                     !.lru = {},
                     !.written = With(@, key, row),
                     !.last = [op |-> "set_setting", key |-> key, arg |-> value,
                               result |-> PyBool(TRUE)]]
             ELSE [config EXCEPT
                     !.calls = @ + 1,
                     !.last = [op |-> "set_setting", key |-> key, arg |-> value,
                               result |-> PyBool(FALSE)]]
    /\ ConfigUnchanged

-----------------------------------------------------------------------------
(* Specifications                                                          *)

Next ==
    \/ \E p \in Procs : SaleBegin(p)
    \/ \E p \in Procs : SaleValidate(p)
    \/ \E p \in Procs : SalePrepare(p)
    \/ \E p \in Procs : SaleInsertHeader(p)
    \/ \E p \in Procs : SaleHeaderLocked(p)
    \/ \E p \in Procs : SaleItems(p)
    \/ \E p \in Procs : SaleAccounting(p)
    \/ \E p \in Procs : SaleFinalize(p)
    \/ \E p \in Procs : SaleReturn(p)
    \/ CallUpdateProduct
    \/ CallDeleteProduct
    \/ CallUpdateStock
    \/ CallBulkUpdateStock
    \/ \E p \in Procs : RefundCall(p)
    \/ \E p \in Procs : RefundReturn(p)

Spec == Init /\ [][Next]_vars

CalcInit ==
    /\ db = InitDB(FALSE, {})
    /\ view = [p \in Procs |-> NoView]
    /\ lock = 0
    /\ pc = [p \in Procs |-> "idle"]
    /\ loc = [p \in Procs |-> IdleLoc]
    /\ calls = 0
    /\ init_qty = [products |-> [i \in DOMAIN db.products |-> db.products[i].stock_quantity],
                   variations |-> [i \in DOMAIN db.variations |-> db.variations[i].stock_quantity]]
    /\ \E cart \in CalcCarts : calc = [CalcIdle EXCEPT !.cart = cart]
    /\ refund = [p \in Procs |-> RefundIdle]
    /\ restock = StatusIdle
    /\ employee = DefaultAdmin
    /\ login = [p \in Procs |-> LoginIdle]
    /\ attendance = << >>
    /\ today = 1
    /\ hr = HrIdle
    /\ config = ConfigIdle

StatusInit ==
    /\ db = InitDB(FALSE, {})
    /\ view = [p \in Procs |-> NoView]
    /\ lock = 0
    /\ pc = [p \in Procs |-> "idle"]
    /\ loc = [p \in Procs |-> IdleLoc]
    /\ calls = 0
    /\ init_qty = [products |-> [i \in DOMAIN db.products |-> db.products[i].stock_quantity],
                   variations |-> [i \in DOMAIN db.variations |-> db.variations[i].stock_quantity]]
    /\ calc = CalcIdle
    /\ refund = [p \in Procs |-> RefundIdle]
    /\ \E t \in TotalStockInputs, h \in ThresholdInputs :
           restock = [StatusIdle EXCEPT !.total_stock = t, !.low_stock_threshold = h]
    /\ employee = DefaultAdmin
    /\ login = [p \in Procs |-> LoginIdle]
    /\ attendance = << >>
    /\ today = 1
    /\ hr = HrIdle
    /\ config = ConfigIdle

StatusNext == StatusApply

StatusSpec == StatusInit /\ [][StatusNext]_vars

AuthInit ==
    /\ db = InitDB(FALSE, {})
    /\ view = [p \in Procs |-> NoView]
    /\ lock = 0
    /\ pc = [p \in Procs |-> "idle"]
    /\ loc = [p \in Procs |-> IdleLoc]
    /\ calls = 0
    /\ init_qty = [products |-> [i \in DOMAIN db.products |-> db.products[i].stock_quantity],
                   variations |-> [i \in DOMAIN db.variations |-> db.variations[i].stock_quantity]]
    /\ calc = CalcIdle
    /\ refund = [p \in Procs |-> RefundIdle]
    /\ restock = StatusIdle
    /\ employee \in EmployeeInputs
    /\ login = [p \in Procs |-> LoginIdle]
    /\ attendance = << >>
    /\ today = 1
    /\ hr = HrIdle
    /\ config = ConfigIdle

AuthNext ==
    \/ \E p \in Procs : LoginQuery(p)
    \/ \E p \in Procs : FailedAttemptSelect(p)
    \/ \E p \in Procs : FailedAttemptUpdate(p)
    \/ \E p \in Procs : FailedAttemptLock(p)
    \/ \E p \in Procs : ResetFailedLoginAttempts(p)
    \/ \E p \in Procs : UpdateLastLogin(p)
    \/ \E p \in Procs : LoginReturn(p)

AuthSpec == AuthInit /\ [][AuthNext]_vars

HrInit ==
    /\ db = InitDB(FALSE, {})
    /\ view = [p \in Procs |-> NoView]
    /\ lock = 0
    /\ pc = [p \in Procs |-> "idle"]
    /\ loc = [p \in Procs |-> IdleLoc]
    /\ calls = 0
    /\ init_qty = [products |-> [i \in DOMAIN db.products |-> db.products[i].stock_quantity],
                   variations |-> [i \in DOMAIN db.variations |-> db.variations[i].stock_quantity]]
    /\ calc = CalcIdle
    /\ refund = [p \in Procs |-> RefundIdle]
    /\ restock = StatusIdle
    /\ employee = DefaultAdmin
    /\ login = [p \in Procs |-> LoginIdle]
    /\ attendance \in AttendanceInputs
    /\ today = 1
    /\ hr = HrIdle
    /\ config = ConfigIdle

HrNext ==
    \/ \E employee_id \in EmployeeIdInputs, method \in MethodInputs :
          ClockIn(employee_id, method)
    \/ \E employee_id \in EmployeeIdInputs : ClockOut(employee_id)
    \/ Midnight

HrSpec == HrInit /\ [][HrNext]_vars

ConfigInit ==
    /\ Init
    /\ db.accounts = {}
    /\ ~db.products[1].allow_backorders

ConfigNext ==
    \/ \E key \in KeyInputs, default \in DefaultInputs : GetSetting(key, default)
    \/ \E key \in KeyInputs, value \in ValueInputs, setting_type \in TypeInputs :
          SetSetting(key, value, setting_type)

ConfigSpec == ConfigInit /\ [][ConfigNext]_vars

CalcNext == CalcApply

CalcSpec == CalcInit /\ [][CalcNext]_vars

RefundSpec == RefundInit /\ [][Next]_vars

LoyaltyNext == LoyaltyApply

LoyaltySpec == CalcInit /\ [][LoyaltyNext]_vars

-----------------------------------------------------------------------------
(* Properties                                                              *)

RowsOf(rows, att) == {i \in 1..Len(rows) : rows[i].att = att}

\* what a sale is to publish only as a whole: the four tables and the
\* stored stock quantities
SaleTables(d) ==
    [sales |-> d.sales, sale_items |-> d.sale_items,
     stock_movements |-> d.stock_movements,
     general_ledger |-> d.general_ledger,
     product_stock |-> [i \in DOMAIN d.products |-> d.products[i].stock_quantity],
     variation_stock |-> [i \in DOMAIN d.variations |-> d.variations[i].stock_quantity]]

\* header, line items and ledger rows of one call are committed together,
\* and a sale's stock movements only with its header
AllOrNone(d) ==
    /\ \A i \in 1..Len(d.sales) :
          /\ RowsOf(d.sale_items, d.sales[i].att) # {}
          /\ RowsOf(d.general_ledger, d.sales[i].att) # {}
    /\ \A i \in 1..Len(d.sale_items) : RowsOf(d.sales, d.sale_items[i].att) # {}
    /\ \A i \in 1..Len(d.general_ledger) :
          RowsOf(d.sales, d.general_ledger[i].att) # {}
    /\ \A i \in 1..Len(d.stock_movements) :
          d.stock_movements[i].reference_type = "sale"
             => RowsOf(d.sales, d.stock_movements[i].att) # {}

\* C1: atomicity of process_sale.  No step of a process_sale call other
\* than the end of a call that met no error changes the committed sales,
\* sale_items, stock_movements, general_ledger rows or a stored stock
\* quantity; so a call that fails at the item/stock step or at the ledger
\* posting leaves none of them behind, and header, items, movements and
\* ledger rows of a call are committed all together or not at all.
C1_AtomicSale ==
    [][/\ \A p \in Procs :
             (pc'[p] # pc[p] /\ ~(pc[p] = "finalize" /\ loc[p].err = ""))
                => SaleTables(db') = SaleTables(db)
       /\ AllOrNone(db')]_vars

\* a call has returned a failure that arose at the ledger posting, after
\* its header (sale_id) and its items were written in its transaction,
\* and none of its rows is committed
C1_Witness ==
    \E p \in Procs :
        /\ pc[p] = "done"
        /\ ~loc[p].result.success
        /\ loc[p].err = "accounting"
        /\ loc[p].sale_id # 0
        /\ RowsOf(db.sales, loc[p].att) = {}
        /\ RowsOf(db.sale_items, loc[p].att) = {}
        /\ RowsOf(db.general_ledger, loc[p].att) = {}

\* a cart line the validation is to refuse, read off the stored rows: a
\* missing or inactive product or variation, or more than the stock of an
\* entity that does not allow back-orders
LineInvalid(d, item) ==
    \/ ~(item.product_id \in DOMAIN d.products)
    \/ ~d.products[item.product_id].is_active
    \/ /\ item.variation_id # 0
       /\ \/ ~(item.variation_id \in DOMAIN d.variations)
          \/ ~d.variations[item.variation_id].is_active
          \/ d.variations[item.variation_id].product_id # item.product_id
          \/ /\ item.quantity > d.variations[item.variation_id].stock_quantity
             /\ ~d.products[item.product_id].allow_backorders
    \/ /\ item.variation_id = 0
       /\ item.quantity > d.products[item.product_id].stock_quantity
       /\ ~d.products[item.product_id].allow_backorders

CartInvalid(d, cart) == \E i \in 1..Len(cart) : LineInvalid(d, cart[i])

\* C3: cart validation failure writes nothing.  When the validation step
\* of process_sale runs on a cart with an invalid line, the call ends there
\* with success = FALSE and a reason, and the committed database, every
\* connection's uncommitted state and the write lock are as before.
C3_ValidationFailureWritesNothing ==
    [][\A p \in Procs :
          (pc[p] = "validate" /\ pc'[p] # pc[p] /\ CartInvalid(db, loc[p].cart))
             => /\ pc'[p] = "done"
                /\ ~loc'[p].result.success
                /\ loc'[p].result.message # ""
                /\ db' = db
                /\ view' = view
                /\ lock' = lock]_vars

\* a call has returned 'Insufficient stock' for a cart asking 3 of product
\* 1, which stocks fewer and allows no back-orders, and nothing is written
C3_Witness ==
    \E p \in Procs :
        /\ pc[p] = "done"
        /\ loc[p].cart = <<LMany>>
        /\ ~db.products[1].allow_backorders
        /\ db.products[1].stock_quantity < 3
        /\ loc[p].result.message = "Insufficient stock"
        /\ ~loc[p].result.success
        /\ db.sales = << >> /\ db.sale_items = << >>
        /\ db.stock_movements = << >> /\ db.general_ledger = << >>

RECURSIVE SumDebit(_, _)
SumDebit(rows, tx) ==
    IF rows = << >> THEN 0
    ELSE (IF Head(rows).transaction_id = tx THEN Head(rows).debit_amount ELSE 0)
         + SumDebit(Tail(rows), tx)

RECURSIVE SumCredit(_, _)
SumCredit(rows, tx) ==
    IF rows = << >> THEN 0
    ELSE (IF Head(rows).transaction_id = tx THEN Head(rows).credit_amount ELSE 0)
         + SumCredit(Tail(rows), tx)

\* C6: ledger balance.  Each posting step of a sale adds, for the sale's
\* transaction id, at least one debit row and one credit row to the
\* general ledger of its transaction, and the debits of that transaction id
\* sum to its credits.
C6_PostingAddsBalancedPair ==
    [][\A p \in Procs :
          (pc[p] = "accounting" /\ pc'[p] # pc[p])
             => LET rows == view'[p].general_ledger
                    tx == loc[p].sale_id
                IN  /\ \E i \in 1..Len(rows) :
                          rows[i].transaction_id = tx /\ rows[i].debit_amount > 0
                    /\ \E i \in 1..Len(rows) :
                          rows[i].transaction_id = tx /\ rows[i].credit_amount > 0
                    /\ SumDebit(rows, tx) = SumCredit(rows, tx)]_vars

MovementDelta(m) ==
    IF m.balance_after >= m.balance_before THEN m.quantity ELSE -m.quantity

RECURSIVE ReplayProduct(_, _, _)
\* the quantity, starting from q, after the movements of product i
ReplayProduct(q, rows, i) ==
    IF rows = << >> THEN q
    ELSE ReplayProduct(
             IF Head(rows).product_id = i
             THEN q + MovementDelta(Head(rows)) ELSE q,
             Tail(rows), i)

RECURSIVE ReplayVariation(_, _, _)
ReplayVariation(q, rows, v) ==
    IF rows = << >> THEN q
    ELSE ReplayVariation(
             IF Head(rows).product_variation_id = v
             THEN q + MovementDelta(Head(rows)) ELSE q,
             Tail(rows), v)

\* C7: stock chain replay.  For every product and every variation, the
\* initial quantity with all of its stock movements applied in order
\* (incoming ones added, outgoing ones subtracted) is the stored
\* stock_quantity.
C7_StockChainReplay ==
    /\ \A i \in DOMAIN db.products :
          ReplayProduct(init_qty.products[i], db.stock_movements, i)
             = db.products[i].stock_quantity
    /\ \A v \in DOMAIN db.variations :
          ReplayVariation(init_qty.variations[v], db.stock_movements, v)
             = db.variations[v].stock_quantity

RECURSIVE SumOfSale(_, _, _)
\* the sum of field f over the sale_items rows of one sale
SumOfSale(rows, sale_id, f) ==
    IF rows = << >> THEN 0
    ELSE (IF Head(rows).sale_id = sale_id THEN Head(rows)[f] ELSE 0)
         + SumOfSale(Tail(rows), sale_id, f)

Within(x, y, tol) == Abs(x - y) <= tol

\* terminal p's transaction holds the header and every line of its cart
SaleWritten(p) ==
    /\ lock = p
    /\ pc[p] \in {"accounting", "finalize"}
    /\ loc[p].err \in {"", "accounting"}

\* C9: sale balance, as the code keeps it.  For the header and the lines a
\* process_sale call has written in its transaction: the sum of the lines'
\* total (each already net of the line's discount and with the line's tax),
\* minus the cart-level discount (the header's discount_amount less the
\* lines' discount_amount), equals the header's total within 0.01.
C9_SaleBalance ==
    \A p \in Procs :
        SaleWritten(p) =>
            \A i \in RowsOf(view[p].sales, loc[p].att) :
                LET h == view[p].sales[i]
                    items == view[p].sale_items
                IN  Within(SumOfSale(items, h.id, "total")
                              - (h.discount_amount
                                    - SumOfSale(items, h.id, "discount_amount")),
                           h.total, MicroPerCent)

\* a transaction holds a header with tax and a cart-level discount, and
\* its line
C9_Witness ==
    \E p \in Procs :
        /\ SaleWritten(p)
        /\ loc[p].cart = <<LGlobal>>
        /\ \E i \in RowsOf(view[p].sales, loc[p].att) :
              /\ view[p].sales[i].tax_amount > 0
              /\ view[p].sales[i].discount_amount > 0
              /\ SumOfSale(view[p].sale_items, view[p].sales[i].id, "total") > 0

\* C9 as stated: the sum of the lines' total, plus the header's
\* tax_amount, minus the header's discount_amount, equals the header's
\* total within 0.01.
C9_AsStated ==
    \A p \in Procs :
        SaleWritten(p) =>
            \A i \in RowsOf(view[p].sales, loc[p].att) :
                LET h == view[p].sales[i]
                IN  Within(SumOfSale(view[p].sale_items, h.id, "total")
                              + h.tax_amount - h.discount_amount,
                           h.total, MicroPerCent)

\* a line of the result against its cart line: the discount is the
\* percentage of the line subtotal when a percentage > 0 is given, else
\* the fixed amount; the tax is the percentage of the discounted amount
LineAsClaimed(item, out) ==
    LET line_subtotal == item.quantity * item.unit_price * MicroPerCent
    IN  /\ out.subtotal = line_subtotal
        /\ IF item.discount_percent > 0
           THEN out.discount_amount * 100 = line_subtotal * item.discount_percent
           ELSE out.discount_amount = item.discount_amount * MicroPerCent
        /\ out.tax_amount * 100
              = (line_subtotal - out.discount_amount) * item.tax_percent

LinesAsClaimed(cart, totals) ==
    /\ Len(totals.items) = Len(cart)
    /\ \A i \in 1..Len(cart) : LineAsClaimed(cart[i], totals.items[i])

IsCents(x) == x % MicroPerCent = 0

HeaderRounded(totals) ==
    /\ IsCents(totals.subtotal) /\ IsCents(totals.discount_amount)
    /\ IsCents(totals.tax_amount) /\ IsCents(totals.grand_total)

\* the amounts before rounding, from the lines of the result and the
\* cart-level discount
ExactGrandTotal(totals) ==
    SumField(totals.items, "subtotal")
       - (SumField(totals.items, "discount_amount") + totals.global_discount)
       + SumField(totals.items, "tax_amount")

-----------------------------------------------------------------------------
(* The cashier lookup                                                      *)

\* the cashier of the call terminal p is in is an active employee
CashierKnown(p) ==
    /\ loc[p].user_id \in DOMAIN db.employees
    /\ db.employees[loc[p].user_id].is_active

\* the result process_sale returns from its cashier lookup
CashierRefused ==
    [success |-> FALSE, message |-> "Cashier not found or inactive",
     invoice_no |-> 0, sale_id |-> 0]

-----------------------------------------------------------------------------
(* Results of failing calls                                                *)

\* C12: process_sale and process_refund hand every failure to the caller
\* as a result, never as an exception.  Whenever a process_sale call
\* ends, an error raised at the header insert, the item loop or the ledger
\* posting has been caught and turned into a result with success = FALSE;
\* every process_sale result with success = FALSE carries a message and
\* neither invoice number nor sale id; every process_refund call ends
\* with a result, and when that has success = FALSE it carries a message.
C12_UniformFailureResult ==
    [][\A p \in Procs :
          /\ (pc[p] \in {"header", "items", "accounting"} /\ pc'[p] # pc[p]
                 /\ loc'[p].err # "")
                => pc'[p] = "finalize"
          /\ (pc[p] = "finalize" /\ pc'[p] # pc[p])
                => /\ pc'[p] = "done"
                   /\ loc[p].err # "" => ~loc'[p].result.success
          /\ (pc[p] # "done" /\ pc'[p] = "done" /\ ~loc'[p].result.success)
                => /\ loc'[p].result.message # ""
                   /\ loc'[p].result.invoice_no = 0
                   /\ loc'[p].result.sale_id = 0
          /\ (pc[p] = "idle" /\ pc'[p] = "refunded")
                => \/ refund'[p].result.success
                   \/ refund'[p].result.message # ""]_vars

\* one terminal holds the result of a sale whose posting raised, the other
\* the result of a refund whose step 5 raised
C12_Witness ==
    \E p, q \in Procs :
        /\ pc[p] = "done"
        /\ loc[p].result = Failure("Sale processing failed")
        /\ pc[q] = "refunded"
        /\ refund[q].result = [success |-> FALSE,
                               message |-> "Refund processing failed"]

-----------------------------------------------------------------------------
(* Customer counters                                                       *)

\* floor(amount x points per currency unit), amount in micro-units
PointsFor(d, amount) ==
    (amount * d.settings["loyalty_points_per_currency"]) \div (100 * MicroPerCent)

\* C14: customer counters on every completed sale.  The loyalty update
\* made for a sale with an active customer adds floor(grand_total x
\* points_per_currency) to loyalty_points_balance, adds grand_total to
\* total_spent and adds 1 to total_purchases, also when the earned points
\* are 0.
C14_CustomerCounters ==
    [][(~calc.done /\ calc'.done /\ calc.cart # << >>)
         => LET before == db.customers[1]
                after == db'.customers[1]
                amount == calc'.totals.grand_total
            IN  /\ after.loyalty_points_balance
                       = before.loyalty_points_balance + PointsFor(db, amount)
                /\ after.total_spent = before.total_spent + amount
                /\ after.total_purchases = before.total_purchases + 1]_vars

-----------------------------------------------------------------------------
(* Account configuration                                                   *)

\* all four account codes of a sale's posting have a settings row with a
\* value
AccountsConfigured(d) ==
    \A t \in DOMAIN DefaultAccounts :
        /\ AccountSettingKey[t] \in DOMAIN d.settings
        /\ d.settings[AccountSettingKey[t]] # 0

-----------------------------------------------------------------------------
(* Stock decrement of a sale                                               *)

\* the stored quantity of what a cart line sells: the variation's when the
\* line names one, the product's otherwise
LineStock(d, item) ==
    IF item.variation_id # 0
    THEN d.variations[item.variation_id].stock_quantity
    ELSE d.products[item.product_id].stock_quantity

RECURSIVE SoldOf(_, _)
\* the units of item's entity that the lines of cart sell
SoldOf(cart, item) ==
    IF cart = << >> THEN 0
    ELSE (IF /\ Head(cart).product_id = item.product_id
             /\ Head(cart).variation_id = item.variation_id
          THEN Head(cart).quantity ELSE 0)
         + SoldOf(Tail(cart), item)

\* d holds the movement of a sale's line and the stock lowered by it
LineDecremented(before, d, sale_id, cart, item) ==
    /\ \E i \in 1..Len(d.stock_movements) :
          /\ d.stock_movements[i].reference_type = "sale"
          /\ d.stock_movements[i].reference_id = sale_id
          /\ d.stock_movements[i].product_id = item.product_id
          /\ d.stock_movements[i].product_variation_id = item.variation_id
          /\ d.stock_movements[i].quantity = item.quantity
    /\ LineStock(d, item) = LineStock(before, item) - SoldOf(cart, item)

\* C16: stock decrement for every cart line.  When the item step of a sale
\* has gone through, then for every line of its cart, with or without a
\* variation id, there is a stock movement with reference_type 'sale' and
\* the sale's id as reference_id, and the stored stock is lower by the
\* quantity sold, in the sale's transaction or already committed; the
\* later steps of the sale write neither movements nor stock.
C16_StockDecrementEveryLine ==
    [][\A p \in Procs :
          (pc[p] = "items" /\ pc'[p] = "accounting")
             => \A k \in 1..Len(loc[p].cart) :
                   \/ LineDecremented(db, db', loc[p].sale_id, loc[p].cart,
                                      loc[p].cart[k])
                   \/ LineDecremented(db, view'[p], loc[p].sale_id, loc[p].cart,
                                      loc[p].cart[k])]_vars

-----------------------------------------------------------------------------
(* Revenue and cost-of-goods postings                                      *)

\* rows holds a ledger row of transaction tx on account with these amounts
HasLedgerRow(rows, tx, account, debit, credit) ==
    \E i \in 1..Len(rows) :
        /\ rows[i].transaction_id = tx
        /\ rows[i].account_id = account
        /\ rows[i].debit_amount = debit
        /\ rows[i].credit_amount = credit

RECURSIVE CostOfLines(_, _)
\* the sum over the cart's lines of quantity times the cost price of the
\* variation, or of the product when the line names none
CostOfLines(d, cart) ==
    IF cart = << >> THEN 0
    ELSE (Head(cart).quantity * MicroPerCent
            * (IF Head(cart).variation_id # 0
               THEN d.variations[Head(cart).variation_id].cost_price
               ELSE d.products[Head(cart).product_id].cost_price))
         + CostOfLines(d, Tail(cart))

\* C17: revenue and COGS both posted.  The posting step of a sale leaves in
\* the sale's transaction a revenue pair (cash/receivables debit and sales
\* revenue credit, each of the grand total) and a COGS pair (cost of goods
\* sold debit and inventory credit, each of the sum of quantity x cost
\* price over the lines), so that no sale is committed without them.
C17_RevenueAndCogsPosted ==
    [][\A p \in Procs :
          (pc[p] = "accounting" /\ pc'[p] # pc[p])
             => LET rows == view'[p].general_ledger
                    tx == loc[p].sale_id
                    total == loc[p].totals.grand_total
                    cogs == CostOfLines(view[p], loc[p].cart)
                IN  /\ HasLedgerRow(rows, tx, DefaultAccounts.cash_receivables, total, 0)
                    /\ HasLedgerRow(rows, tx, DefaultAccounts.sales_revenue, 0, total)
                    /\ HasLedgerRow(rows, tx, DefaultAccounts.cost_of_goods_sold, cogs, 0)
                    /\ HasLedgerRow(rows, tx, DefaultAccounts.inventory_asset, 0, cogs)]_vars

-----------------------------------------------------------------------------
(* Refunds                                                                 *)

\* stored line i of sale_id is the line the request line names
NamesLine(d, sale_id, item, i) ==
    /\ d.sale_items[i].sale_id = sale_id
    /\ d.sale_items[i].product_id = item.product_id
    /\ d.sale_items[i].product_variation_id = item.variation_id

\* some line of the request asks for more units than the stored line it
\* names has left (original quantity less what was returned)
AsksTooMuch(d, sale_id, items) ==
    \E k \in 1..Len(items), i \in 1..Len(d.sale_items) :
        /\ NamesLine(d, sale_id, items[k], i)
        /\ items[k].quantity
              > d.sale_items[i].quantity - d.sale_items[i].return_quantity

\* C19: refund quantity bound.  Whatever process_refund calls are made, no
\* stored line's returned quantity exceeds its original quantity; and a
\* process_refund call with a line that asks for more than original
\* quantity less already returned is rejected by the validation with
\* success = FALSE and changes no state.
C19_RefundQuantityBound ==
    [][/\ \A i \in 1..Len(db'.sale_items) :
             db'.sale_items[i].return_quantity <= db'.sale_items[i].quantity
       /\ \A p \in Procs :
             (/\ pc[p] = "idle" /\ pc'[p] = "refunded"
              /\ AsksTooMuch(db, refund'[p].sale_id, refund'[p].items))
             => /\ ~refund'[p].result.success
                /\ refund'[p].result.message
                      \in {"Cannot refund more than max_refundable units",
                           "Item not found in original sale"}
                /\ db' = db /\ view' = view /\ lock' = lock]_vars

\* a request for both units of a line that has both units returned
\* already was rejected
C19_Witness ==
    \E p \in Procs :
        /\ pc[p] = "refunded"
        /\ refund[p].sale_id = 1
        /\ refund[p].items = <<RHalf, RVarAll>>
        /\ db.sale_items[2].return_quantity = 2
        /\ refund[p].result = [success |-> FALSE,
                               message |-> "Cannot refund more than max_refundable units"]

\* C20: successful partial refund.  process_refund of 1 unit against a
\* stored sale line of quantity 2 of which nothing was returned succeeds,
\* creates a refund sale, records a stock movement whose balance_after is
\* balance_before + 1, and leaves 1 unit of the line refundable.
C20_PartialRefundSucceeds ==
    [][\A p \in Procs :
          (/\ pc[p] = "idle" /\ pc'[p] = "refunded"
           /\ refund'[p].sale_id = 1
           /\ refund'[p].items = <<RHalf>>
           /\ db.sale_items[1].quantity = 2
           /\ db.sale_items[1].return_quantity = 0)
          => /\ refund'[p].result.success
             /\ \E i \in 1..Len(db'.sales) : db'.sales[i].is_refund
             /\ \E i \in 1..Len(db'.stock_movements) :
                   /\ db'.stock_movements[i].product_id = 1
                   /\ db'.stock_movements[i].balance_after
                         = db'.stock_movements[i].balance_before + 1
             /\ db'.sale_items[1].quantity - db'.sale_items[1].return_quantity = 1]_vars

-----------------------------------------------------------------------------
(* Audit trail of process_sale                                             *)

\* C21: audit trail completeness.  When a process_sale call has returned,
\* whether it succeeded, failed validation, failed the cashier check or
\* failed inside the transaction, the audit trail holds a record of the
\* sale attempt by the call's user with the status of the result
\* (success or failure).  The call logs synchronously, so a record that
\* is not there at the return is never written.
C21_AuditTrailComplete ==
    \A p \in Procs :
        pc[p] = "done"
        => \E i \in 1..Len(db.audit_logs) :
              /\ db.audit_logs[i].action_type = "process_sale"
              /\ db.audit_logs[i].user_id = loc[p].user_id
              /\ db.audit_logs[i].status
                    = (IF loc[p].result.success THEN "success" ELSE "failure")

-----------------------------------------------------------------------------
(* Empty carts                                                             *)

-----------------------------------------------------------------------------
(* Duplicate cart lines                                                    *)

RECURSIVE QuantityOfVariation(_, _)
\* the units of variation v that the lines of cart ask for
QuantityOfVariation(cart, v) ==
    IF cart = << >> THEN 0
    ELSE (IF Head(cart).variation_id = v THEN Head(cart).quantity ELSE 0)
         + QuantityOfVariation(Tail(cart), v)

\* cart has two or more lines for one stored variation, each within the
\* variation's stock, that together ask for more than the stock, and the
\* parent product does not allow back-orders
OversoldByDuplicates(d, cart) ==
    \E v \in DOMAIN d.variations :
        /\ Cardinality({k \in 1..Len(cart) : cart[k].variation_id = v}) >= 2
        /\ \A k \in 1..Len(cart) :
              cart[k].variation_id = v
              => /\ cart[k].quantity <= d.variations[v].stock_quantity
                 /\ cart[k].product_id = d.variations[v].product_id
        /\ QuantityOfVariation(cart, v) > d.variations[v].stock_quantity
        /\ ~d.products[d.variations[v].product_id].allow_backorders

-----------------------------------------------------------------------------
(* C26: stock-status classification                                        *)

\* the status the classification is specified to give for an aggregate
\* stock and a low-stock threshold
SpecifiedStockStatus(total_stock, low_stock_threshold) ==
    IF total_stock <= 0 THEN "outofstock"
    ELSE IF total_stock <= low_stock_threshold THEN "lowstock"
    ELSE "instock"

\* C26: the status update_stock computes for the parent product is
\* 'outofstock' when the aggregate stock of the active variations is at most
\* zero, 'lowstock' when it is positive and at most the low-stock threshold,
\* and 'instock' otherwise
C26_StockStatusClassification ==
    restock.done =>
        restock.stock_status =
            SpecifiedStockStatus(restock.total_stock, restock.low_stock_threshold)

-----------------------------------------------------------------------------
(* C27: login lockout                                                      *)

\* C27: a login succeeds only if, when its credentials were checked, the
\* account was not locked and fewer than five failed attempts were recorded
\* since the last successful login; once five are recorded no later login
\* succeeds, whatever the interleaving of the logins of two terminals
C27_LoginLockout ==
    \A p \in Procs :
        (login[p].pc = "done" /\ login[p].result.success) =>
            /\ ~login[p].user.is_locked
            /\ login[p].user.failed_login_attempts < MaxFailedAttempts

-----------------------------------------------------------------------------
(* C28: attendance state machine                                           *)

\* the employee has a record for today without check_out_time
ClockedIn(employee_id) ==
    \E i \in RecordsOf(attendance, employee_id, today) : attendance[i].check_out_time = 0

\* the employee has clocked in and out today and has no open record
ClockedOut(employee_id) ==
    /\ RecordsOf(attendance, employee_id, today) # {}
    /\ ~ClockedIn(employee_id)

\* C28: clock_in is rejected while the employee has a record for today
\* without check_out_time; after a clock_out of today an active employee's
\* clock_in succeeds again; clock_out without an open record fails and
\* changes no record
C28_AttendanceStateMachine ==
    [][/\ (hr'.op = "clock_in" /\ calls' # calls /\ ClockedIn(hr'.employee_id)) =>
            (~hr'.result.success /\ attendance' = attendance)
       /\ (/\ hr'.op = "clock_in"
           /\ calls' # calls
           /\ ClockedOut(hr'.employee_id)
           /\ hr'.employee_id \in DOMAIN db.employees
           /\ hr'.method \in CheckInMethods) =>
            hr'.result.success
       /\ (hr'.op = "clock_out" /\ calls' # calls /\ ~ClockedIn(hr'.employee_id)) =>
            (~hr'.result.success /\ attendance' = attendance)]_vars

-----------------------------------------------------------------------------
(* C29: settings cache coherence                                           *)

\* C29: once set_setting(k, v) has returned True, every later
\* get_setting(k, d) returns v as its type parses it (d where the stored
\* string does not parse), never a value or a default cached before, for
\* any default d
C29_CacheCoherence ==
    (config.last.op = "get_setting" /\ config.last.key \in DOMAIN config.written) =>
        config.last.result =
            ParseValue(config.written[config.last.key].setting_value,
                       config.written[config.last.key].setting_type,
                       config.last.arg)

\* the same for the defaults lru_cache can hash
CacheCoherentForHashableDefaults ==
    (/\ config.last.op = "get_setting"
     /\ config.last.key \in DOMAIN config.written
     /\ Hashable(config.last.arg)) =>
        config.last.result =
            ParseValue(config.written[config.last.key].setting_value,
                       config.written[config.last.key].setting_type,
                       config.last.arg)

-----------------------------------------------------------------------------
(* C30: soft-deleted products cannot be sold                               *)

\* the step is a delete_product call that succeeded for product_id
DeletedBy(d, e, product_id) ==
    /\ Len(e.audit_logs) = Len(d.audit_logs) + 1
    /\ e.audit_logs[Len(e.audit_logs)].action_type = "delete"
    /\ e.audit_logs[Len(e.audit_logs)].entity_id = product_id
    /\ e.audit_logs[Len(e.audit_logs)].status = "success"

\* the cart has a line of an existing product that is inactive
SellsInactive(d, cart) ==
    \E i \in 1..Len(cart) :
        /\ cart[i].product_id \in DOMAIN d.products
        /\ ~d.products[cart[i].product_id].is_active

\* C30: a delete_product that succeeds leaves the product and all its
\* variations inactive, and the validation step of every process_sale whose
\* cart has a line of an inactive product, with or without a variation id,
\* ends the call with success = FALSE and nothing written
C30_DeletedProductNotSold ==
    [][/\ \A product_id \in DOMAIN db.products :
             DeletedBy(db, db', product_id) =>
                /\ ~db'.products[product_id].is_active
                /\ \A v \in DOMAIN db'.variations :
                      db'.variations[v].product_id = product_id
                         => ~db'.variations[v].is_active
       /\ \A p \in Procs :
             (/\ pc[p] = "validate" /\ pc'[p] # pc[p]
              /\ SellsInactive(db, loc[p].cart))
             => /\ pc'[p] = "done"
                /\ ~loc'[p].result.success
                /\ loc'[p].result.message # ""
                /\ db' = db /\ view' = view /\ lock' = lock]_vars

\* a sale of two units of product 1, which stocks two, has been refused as
\* 'not found or inactive' after delete_product(1), with nothing written
C30_Witness ==
    \E p \in Procs :
        /\ pc[p] = "done"
        /\ loc[p].cart = <<LSpec>>
        /\ ~db.products[1].is_active
        /\ db.products[1].stock_quantity = 2
        /\ ~loc[p].result.success
        /\ loc[p].result.message = "not found or inactive"
        /\ RowsOf(db.sales, loc[p].att) = {}
        /\ RowsOf(db.sale_items, loc[p].att) = {}

=============================================================================
